---- MODULE Spec2Model ----
(***************************************************************************)
(* TG_sender backend: campaign execution with account rotation             *)
(* (services/campaign_service.py, routers/campaigns.py) and the follow-up  *)
(* queue (services/followup_service.py, routers/followup.py).              *)
(*                                                                         *)
(* The document database is modelled by one variable per collection.  A    *)
(* request handler is a process whose steps are the handler's awaits: the  *)
(* code between two awaits is one atomic step of the asyncio event loop.   *)
(***************************************************************************)
EXTENDS Integers, Sequences, FiniteSets, TLC

VARIABLES
    telegram_accounts,  \* db.telegram_accounts: account id -> document
    contacts,           \* db.contacts: contact id -> document
    campaigns,          \* db.campaigns: campaign id -> document
    dialogs,            \* db.dialogs: sequence of documents, in insertion order
    voice_messages,     \* db.voice_messages: voice id -> document
    followup_queue,     \* db.followup_queue: sequence of documents, in insertion order
    now,                \* the wall clock, in hours
    run,                \* start_campaign requests: process -> locals
    enq,                \* add_read_contacts requests: process -> locals
    drain,              \* the process_queue request: locals
    cancel,             \* the last cancel_followup request: its argument and response
    render,             \* process_template calls: the arguments and the texts returned
    gateway_log,        \* the calls the Delivery Gateway received, in order
    at_start            \* history: the collections as each start request found them

vars == <<telegram_accounts, contacts, campaigns, dialogs, voice_messages,
          followup_queue, now, run, enq, drain, cancel, render, gateway_log,
          at_start>>

\* What the campaign handlers never touch: the follow-up collections and
\* requests, and the clock
queue_vars == <<voice_messages, followup_queue, enq, drain, cancel, render, now>>

-----------------------------------------------------------------------------
(* Bounds of the model *)

NumAccounts == 2
NumContacts == 2
NumCampaigns == 2
NumRuns == 2
NumEnq == 2
NumVoices == 1
MaxPerHour == 1
MaxNow == 1

AccIds == 1..NumAccounts
ConIds == 1..NumContacts
CampIds == 1..NumCampaigns
Runs == 1..NumRuns
Enqs == 1..NumEnq
VoiceIds == 1..NumVoices

\* The daily cap of the modelled accounts: one above the hourly cap, so that
\* either cap can be the one that is reached first.
MaxPerDay == MaxPerHour + 1

-----------------------------------------------------------------------------
(* Program constants *)

\* timedelta(hours=1) and timedelta(days=1), in hours
HOUR == 1
DAY == 24

\* A reset timestamp that is absent (None) and one that does not parse.
NoTimestamp == -1
Malformed == -2

\* Python's None for an account, a dialog or a queue item
None == 0

-----------------------------------------------------------------------------
(* Sequence helpers *)

Range(s) == {s[i] : i \in DOMAIN s}

\* The elements of the set S of integers as a sequence in increasing order:
\* the order in which find() returns documents inserted in id order.
RECURSIVE SortedSeq(_)
SortedSeq(S) ==
    IF S = {} THEN <<>>
    ELSE LET m == CHOOSE x \in S : \A y \in S : x <= y
         IN <<m>> \o SortedSeq(S \ {m})

-----------------------------------------------------------------------------
(* Delivery gateway: the values send_message can return *)

MsgNotAuthorized == "Account not authorized"
MsgNotFound == "User not found on Telegram"
MsgBanned == "Account is banned"
MsgExpired == "Session expired. Re-authorization required"
MsgFlood == "Flood wait: N seconds"
\* str(e) of any other exception: a text without, and one with, the word "banned"
MsgGeneric == "Connection reset by peer"
MsgGenericBanned == "You're banned from sending messages in supergroups/channels"

ErrorMessages == {MsgNotAuthorized, MsgNotFound, MsgBanned, MsgExpired,
                  MsgFlood, MsgGeneric, MsgGenericBanned}

\* The recoverable failures: recipient not found, flood-wait, a transient error
RecoverableMessages == {MsgNotFound, MsgFlood, MsgGeneric}

NoResult == [status |-> "none", message |-> ""]
SentResult == [status |-> "sent", message |-> ""]
ErrorResult(m) == [status |-> "error", message |-> m]

\* "banned" in result.get("message", "").lower()
ContainsBanned(m) == m \in {MsgBanned, MsgGenericBanned}

-----------------------------------------------------------------------------
(* Account limiter and selector (services/campaign_service.py) *)

\* ResetDue with the elapsed time compared by > instead of >=
ResetDue_Strict(ts, t, period) ==
    IF ts = NoTimestamp THEN FALSE
    ELSE IF ts = Malformed THEN TRUE
    ELSE (t - ts) > period

\* Whether reset_account_counters resets the counter whose reset timestamp is
\* ts: an absent timestamp skips the block, a malformed one raises inside the
\* try and is reset by the except, a well-formed one is compared with the period.
ResetDue(ts, t, period) ==
    IF ts = NoTimestamp THEN FALSE
    ELSE IF ts = Malformed THEN TRUE
    ELSE (t - ts) >= period

\* reset_account_counters(account, now): the $set it applies to the stored
\* document doc, decided from the fetched copy account.
reset_account_counters(doc, account, t) ==
    LET hourDue == ResetDue(account.last_hour_reset, t, HOUR)
        dayDue == ResetDue(account.last_day_reset, t, DAY)
    IN [doc EXCEPT
          !.messages_sent_hour = IF hourDue THEN 0 ELSE @,
          !.last_hour_reset = IF hourDue THEN t ELSE @,
          !.messages_sent_today = IF dayDue THEN 0 ELSE @,
          !.last_day_reset = IF dayDue THEN t ELSE @]

\* The account_query of get_available_accounts for a campaign
MatchesAccountQuery(acc, camp) ==
    /\ acc.status = "active"
    /\ IF camp.account_categories \cap {"low", "medium", "high"} # {}
       THEN acc.price_category \in camp.account_categories
       ELSE IF camp.account_ids # {}
       THEN acc.id \in camp.account_ids
       ELSE TRUE

\* db.telegram_accounts.find(account_query): the matching documents, in id order
FindAccounts(camp) ==
    LET ids == SortedSeq({a \in AccIds : MatchesAccountQuery(telegram_accounts[a], camp)})
    IN [i \in 1..Len(ids) |-> telegram_accounts[ids[i]]]

\* The contact_query of execute_campaign for a campaign
MatchesContactQuery(con, camp) ==
    /\ con.status = "pending"
    /\ IF camp.contact_ids # {}
       THEN con.id \in camp.contact_ids
       ELSE IF camp.tag_filter # ""
       THEN camp.tag_filter \in con.tags
       ELSE TRUE

\* db.contacts.find(contact_query): the ids of the matching contacts, in id order
FindContacts(camp) ==
    SortedSeq({c \in ConIds : MatchesContactQuery(contacts[c], camp)})

\* current_hour without the messages of this run
CurrentHour_Stored(acc, account_msg_count) == acc.messages_sent_hour

\* current_hour and current_day of select_best_account
CurrentHour(acc, account_msg_count) == acc.messages_sent_hour + account_msg_count[acc.id]
CurrentDay(acc, account_msg_count) == acc.messages_sent_today + account_msg_count[acc.id]

\* Available with the caps compared by > instead of >=: an account at its cap
\* still passes
Available_CapInclusive(acc, account_msg_count, respect_limits) ==
    /\ acc.session_string
    /\ respect_limits =>
          ~(\/ CurrentHour(acc, account_msg_count) > acc.max_per_hour
            \/ CurrentDay(acc, account_msg_count) > acc.max_per_day)

\* The filter of select_best_account: the accounts appended to `available`
Available(acc, account_msg_count, respect_limits) ==
    /\ acc.session_string
    /\ respect_limits =>
          ~(\/ CurrentHour(acc, account_msg_count) >= acc.max_per_hour
            \/ CurrentDay(acc, account_msg_count) >= acc.max_per_day)

\* The sort key without its second component: load only
SortKeyLess_LoadOnly(x, y, account_msg_count) ==
    CurrentHour(x, account_msg_count) < CurrentHour(y, account_msg_count)

\* The sort key (load, -remaining_hour), compared as Python compares tuples
SortKeyLess(x, y, account_msg_count) ==
    LET lx == CurrentHour(x, account_msg_count)
        ly == CurrentHour(y, account_msg_count)
    IN \/ lx < ly
       \/ /\ lx = ly
          /\ -(x.max_per_hour - lx) < -(y.max_per_hour - ly)

\* select_best_account without the filter on the caps: every account with a
\* session string is appended to `available`
select_best_account_Unfiltered(accs, account_msg_count, respect_limits) ==
    LET available == SelectSeq(accs, LAMBDA acc : acc.session_string)
        IsMin(i) == \A j \in 1..Len(available) :
                       ~SortKeyLess(available[j], available[i], account_msg_count)
    IN IF available = <<>> THEN None
       ELSE LET i == CHOOSE i \in 1..Len(available) :
                        IsMin(i) /\ \A j \in 1..(i - 1) : ~IsMin(j)
            IN available[i].id

\* select_best_account(accounts, account_msg_count, respect_limits): the id of
\* the first element of the stably sorted `available` list, or None
select_best_account(accs, account_msg_count, respect_limits) ==
    LET available == SelectSeq(accs, LAMBDA acc : Available(acc, account_msg_count, respect_limits))
        IsMin(i) == \A j \in 1..Len(available) :
                       ~SortKeyLess(available[j], available[i], account_msg_count)
    IN IF available = <<>> THEN None
       ELSE LET i == CHOOSE i \in 1..Len(available) :
                        IsMin(i) /\ \A j \in 1..(i - 1) : ~IsMin(j)
            IN available[i].id

\* The static branch of execute_campaign: the first account of the pool that
\* has a session string, or None
first_authorized(accs) ==
    LET withSession == SelectSeq(accs, LAMBDA acc : acc.session_string)
    IN IF withSession = <<>> THEN None ELSE withSession[1].id

\* The account chosen for the next contact
SelectAccount(accs, account_msg_count, use_rotation, respect_limits) ==
    IF use_rotation
    THEN select_best_account(accs, account_msg_count, respect_limits)
    ELSE first_authorized(accs)

\* The copy of account id in the run's pool
PoolAccount(accs, id) == accs[CHOOSE i \in 1..Len(accs) : accs[i].id = id]

-----------------------------------------------------------------------------
(* start_campaign (routers/campaigns.py) and execute_campaign                *)
(* (services/campaign_service.py)                                            *)

\* The locals of a start_campaign request that has not begun
\* The price categories of the accounts; a category without an entry in a
\* by_category result counts 0
Categories == {"low", "high"}

IdleRun ==
    [pc |-> "idle",
     cid |-> None,                       \* campaign_id
     contacts |-> <<>>,                  \* contacts
     idx |-> 0,                          \* position of the loop in contacts
     found |-> <<>>,                     \* accounts of get_available_accounts
     authorized_accounts |-> <<>>,
     account_msg_count |-> [a \in AccIds |-> 0],
     messages_sent |-> 0,
     messages_delivered |-> 0,
     messages_failed |-> 0,
     skipped_due_to_limits |-> 0,
     account |-> None,                   \* id of the account selected
     result |-> NoResult,                \* what send_message returned
     dialog |-> None,                    \* what db.dialogs.find_one returned
     accounts_used |-> 0,                \* accounts_used of the result
     by_category |-> [cat \in Categories |-> 0],   \* by_category of the result
     response |-> ""]                    \* what the request answered

\* The stored collections, as a start request finds them
Collections ==
    [telegram_accounts |-> telegram_accounts, contacts |-> contacts,
     campaigns |-> campaigns, dialogs |-> dialogs]

\* campaigns.py 62-67: read the campaign, reject a running one
StartRead(p, c) ==
    /\ run[p].pc = "idle"
    /\ IF campaigns[c].status = "running"
       THEN run' = [run EXCEPT ![p].pc = "done", ![p].cid = c,
                               ![p].response = "already running"]
       ELSE run' = [run EXCEPT ![p].pc = "set_running", ![p].cid = c]
    /\ at_start' = [at_start EXCEPT ![p] = Collections]
    /\ UNCHANGED <<telegram_accounts, contacts, campaigns, dialogs,
                   queue_vars, gateway_log>>

\* campaigns.py 69-72: status running
StartSetRunning(p) ==
    /\ run[p].pc = "set_running"
    /\ campaigns' = [campaigns EXCEPT ![run[p].cid].status = "running"]
    /\ run' = [run EXCEPT ![p].pc = "fetch_contacts"]
    /\ UNCHANGED <<telegram_accounts, contacts, dialogs, queue_vars, gateway_log, at_start>>

\* campaign_service.py 146-156: the pending contacts of the campaign
ExecFetchContacts(p) ==
    /\ run[p].pc = "fetch_contacts"
    /\ LET found == FindContacts(campaigns[run[p].cid])
       IN run' = [run EXCEPT ![p].contacts = found,
                             ![p].pc = IF found = <<>> THEN "revert" ELSE "find_accounts",
                             ![p].response = IF found = <<>> THEN "No contacts found" ELSE @]
    /\ UNCHANGED <<telegram_accounts, contacts, campaigns, dialogs,
                   queue_vars, gateway_log, at_start>>

\* campaign_service.py 20-36: the first find of get_available_accounts
GetAccountsFind(p) ==
    /\ run[p].pc = "find_accounts"
    /\ run' = [run EXCEPT ![p].found = FindAccounts(campaigns[run[p].cid]),
                          ![p].pc = "reset_counters"]
    /\ UNCHANGED <<telegram_accounts, contacts, campaigns, dialogs,
                   queue_vars, gateway_log, at_start>>

\* campaign_service.py 38-41: reset_account_counters for every account found
GetAccountsReset(p) ==
    /\ run[p].pc = "reset_counters"
    /\ telegram_accounts' =
          [a \in AccIds |->
              IF \E i \in 1..Len(run[p].found) : run[p].found[i].id = a
              THEN reset_account_counters(telegram_accounts[a],
                                          PoolAccount(run[p].found, a), now)
              ELSE telegram_accounts[a]]
    /\ run' = [run EXCEPT ![p].pc = "refetch_accounts"]
    /\ UNCHANGED <<contacts, campaigns, dialogs, queue_vars, gateway_log, at_start>>

\* campaign_service.py 43-45 and 165-179: the second find, the authorized
\* accounts among its result, and the run's counters
GetAccountsRefetch(p) ==
    /\ run[p].pc = "refetch_accounts"
    /\ LET accounts == FindAccounts(campaigns[run[p].cid])
           authorized == SelectSeq(accounts, LAMBDA acc : acc.session_string)
       IN IF authorized = <<>>
          THEN run' = [run EXCEPT ![p].pc = "revert",
                                  ![p].response = "No authorized accounts available"]
          ELSE run' = [run EXCEPT ![p].pc = "select", ![p].idx = 1,
                                  ![p].authorized_accounts = authorized]
    /\ UNCHANGED <<telegram_accounts, contacts, campaigns, dialogs,
                   queue_vars, gateway_log, at_start>>

\* The pc after the loop body has handled the contact at position idx
\* The loop left one contact before the end of the list
NextContactPc_OneShort(p) ==
    IF run[p].idx + 1 < Len(run[p].contacts) THEN "select" ELSE "complete"

NextContactPc(p) == IF run[p].idx < Len(run[p].contacts) THEN "select" ELSE "complete"

\* campaign_service.py 181-199: select the account for the current contact;
\* without one the contact is skipped
ExecSelect(p) ==
    /\ run[p].pc = "select"
    /\ LET camp == campaigns[run[p].cid]
           account == SelectAccount(run[p].authorized_accounts, run[p].account_msg_count,
                                    camp.use_rotation, camp.respect_limits)
       IN IF account = None
          THEN run' = [run EXCEPT ![p].skipped_due_to_limits = @ + 1,
                                  ![p].account = None,
                                  ![p].idx = @ + 1,
                                  ![p].pc = NextContactPc(p)]
          ELSE run' = [run EXCEPT ![p].account = account, ![p].pc = "send"]
    /\ UNCHANGED <<telegram_accounts, contacts, campaigns, dialogs,
                   queue_vars, gateway_log, at_start>>

\* telegram_service.py 590-637, send_message: the gateway's answer, and the
\* account status it stores on a ban or an unregistered auth key
send_message(doc, result) ==
    IF result.message = MsgBanned
    THEN [doc EXCEPT !.status = "banned"]
    ELSE IF result.message = MsgExpired
    THEN [doc EXCEPT !.status = "session_expired", !.session_string = FALSE]
    ELSE doc

\* campaign_service.py 214-217: random.randint(delay_min, delay_max) raises
\* ValueError for an empty range
RandintRaises(account) == account.delay_min > account.delay_max

\* campaign_service.py 202-217: the call of send_message and the draw of the
\* delay; an exception ends the request, nothing in start_campaign catches it
ExecSend(p) ==
    /\ run[p].pc = "send"
    /\ \E result \in {SentResult} \cup {ErrorResult(m) : m \in ErrorMessages} :
          /\ telegram_accounts' =
                [telegram_accounts EXCEPT ![run[p].account] = send_message(@, result)]
          /\ run' = IF RandintRaises(PoolAccount(run[p].authorized_accounts, run[p].account))
                    THEN [run EXCEPT ![p].result = result,
                                     ![p].pc = "raised",
                                     ![p].response = "Internal Server Error"]
                    ELSE [run EXCEPT ![p].result = result, ![p].pc = "dialog_find"]
          /\ gateway_log' = Append(gateway_log,
                                   [kind |-> "text", by |-> p,
                                    account |-> run[p].account,
                                    contact |-> run[p].contacts[run[p].idx],
                                    result |-> result])
    /\ UNCHANGED <<contacts, campaigns, dialogs, queue_vars, at_start>>

\* db.dialogs.find_one({"contact_id": ...}): the position of the first dialog
\* of the contact, or None
FindDialog(contact_id) ==
    IF \E i \in 1..Len(dialogs) : dialogs[i].contact_id = contact_id
    THEN CHOOSE i \in 1..Len(dialogs) :
            /\ dialogs[i].contact_id = contact_id
            /\ \A j \in 1..(i - 1) : dialogs[j].contact_id # contact_id
    ELSE None

\* campaign_service.py 222-225
ExecDialogFind(p) ==
    /\ run[p].pc = "dialog_find"
    /\ run' = [run EXCEPT ![p].dialog = FindDialog(run[p].contacts[run[p].idx]),
                          ![p].pc = "dialog_write"]
    /\ UNCHANGED <<telegram_accounts, contacts, campaigns, dialogs,
                   queue_vars, gateway_log, at_start>>

\* campaign_service.py 227-238: message_entry
MessageEntry(p) ==
    LET delivered == run[p].result.status = "sent"
    IN [direction |-> "outgoing",
        status |-> IF delivered THEN "delivered" ELSE "failed",
        error |-> IF delivered THEN "" ELSE run[p].result.message,
        account_id |-> run[p].account]

\* campaign_service.py 240-262: push the entry to the dialog found, or insert
\* a new dialog holding it
ExecDialogWrite(p) ==
    /\ run[p].pc = "dialog_write"
    /\ IF run[p].dialog # None
       THEN dialogs' = [dialogs EXCEPT ![run[p].dialog].messages = Append(@, MessageEntry(p))]
       ELSE dialogs' = Append(dialogs,
                              [contact_id |-> run[p].contacts[run[p].idx],
                               account_id |-> run[p].account,
                               messages |-> <<MessageEntry(p)>>])
    /\ run' = [run EXCEPT ![p].pc = "record"]
    /\ UNCHANGED <<telegram_accounts, contacts, campaigns, queue_vars, gateway_log, at_start>>

\* The account's counters with a failed attempt left uncounted
record_send_DeliveredOnly(doc, delivered) ==
    IF delivered
    THEN [doc EXCEPT !.total_messages_sent = @ + 1,
                     !.total_messages_delivered = @ + 1,
                     !.messages_sent_today = @ + 1,
                     !.messages_sent_hour = @ + 1]
    ELSE doc

\* campaign_service.py 273-279 and 283-286: the $inc of the account's counters
record_send(doc, delivered) ==
    [doc EXCEPT !.total_messages_sent = @ + 1,
                !.total_messages_delivered = IF delivered THEN @ + 1 ELSE @,
                !.messages_sent_today = @ + 1,
                !.messages_sent_hour = @ + 1]

\* campaign_service.py 288-293: whether the failed attempt disables the account
BanDetected(result) == result.status # "sent" /\ ContainsBanned(result.message)

\* The pool with the account left in
RemoveAccount_Keep(accs, id) == accs

\* campaign_service.py 295: the pool without the account
RemoveAccount(accs, id) == SelectSeq(accs, LAMBDA a : a.id # id)

\* campaign_service.py 264-295: the run's counters, the contact's status, the
\* account's counters and, on a ban, the account's status and the pool
ExecRecord(p) ==
    /\ run[p].pc = "record"
    /\ LET delivered == run[p].result.status = "sent"
           banned == BanDetected(run[p].result)
           a == run[p].account
       IN /\ contacts' = IF delivered
                         THEN [contacts EXCEPT ![run[p].contacts[run[p].idx]].status = "messaged"]
                         ELSE contacts
          /\ telegram_accounts' =
                [telegram_accounts EXCEPT
                    ![a] = IF banned
                           THEN [record_send(@, delivered) EXCEPT !.status = "banned"]
                           ELSE record_send(@, delivered)]
          /\ run' = [run EXCEPT
                        ![p].messages_sent = @ + 1,
                        ![p].account_msg_count[a] = @ + 1,
                        ![p].messages_delivered = IF delivered THEN @ + 1 ELSE @,
                        ![p].messages_failed = IF delivered THEN @ ELSE @ + 1,
                        ![p].authorized_accounts = IF banned THEN RemoveAccount(@, a) ELSE @,
                        ![p].pc = "sleep"]
    /\ UNCHANGED <<campaigns, dialogs, queue_vars, gateway_log, at_start>>

\* campaign_service.py 298: the delay between two contacts
ExecSleep(p) ==
    /\ run[p].pc = "sleep"
    /\ run' = [run EXCEPT ![p].idx = @ + 1,
                          ![p].result = NoResult,
                          ![p].dialog = None,
                          ![p].pc = NextContactPc(p)]
    /\ UNCHANGED <<telegram_accounts, contacts, campaigns, dialogs,
                   queue_vars, gateway_log, at_start>>

\* campaigns.py 77-82: a result with an error puts the campaign back to draft
StartRevert(p) ==
    /\ run[p].pc = "revert"
    /\ campaigns' = [campaigns EXCEPT ![run[p].cid].status = "draft"]
    /\ run' = [run EXCEPT ![p].pc = "done"]
    /\ UNCHANGED <<telegram_accounts, contacts, dialogs, queue_vars, gateway_log, at_start>>

RECURSIVE CategoryCount(_, _, _, _)
\* The messages counted for the accounts of price category cat among the
\* first n accounts of the pool
CategoryCount(accs, account_msg_count, cat, n) ==
    IF n = 0 THEN 0
    ELSE CategoryCount(accs, account_msg_count, cat, n - 1)
         + (IF accs[n].price_category = cat THEN account_msg_count[accs[n].id] ELSE 0)

\* campaign_service.py 300-306: the counts of account_msg_count, by the
\* category of the account, for the accounts still in authorized_accounts
category_stats(accs, account_msg_count) ==
    [cat \in Categories |-> CategoryCount(accs, account_msg_count, cat, Len(accs))]

\* campaign_service.py 314: the accounts of authorized_accounts with a count
accounts_used(accs, account_msg_count) ==
    Len(SelectSeq(accs, LAMBDA a : account_msg_count[a.id] > 0))

\* campaigns.py 84-105: the result is stored and the campaign is completed
StartComplete(p) ==
    /\ run[p].pc = "complete"
    /\ campaigns' = [campaigns EXCEPT
                        ![run[p].cid].status = "completed",
                        ![run[p].cid].messages_sent = run[p].messages_sent,
                        ![run[p].cid].messages_delivered = run[p].messages_delivered,
                        ![run[p].cid].messages_failed = run[p].messages_failed]
    /\ run' = [run EXCEPT
                  ![p].pc = "done",
                  ![p].accounts_used = accounts_used(run[p].authorized_accounts,
                                                     run[p].account_msg_count),
                  ![p].by_category = category_stats(run[p].authorized_accounts,
                                                    run[p].account_msg_count),
                  ![p].response = "Campaign completed"]
    /\ UNCHANGED <<telegram_accounts, contacts, dialogs, queue_vars, gateway_log, at_start>>

\* One step of the start_campaign request p after its first
RunStep(p) ==
    \/ StartSetRunning(p)
    \/ ExecFetchContacts(p)
    \/ GetAccountsFind(p)
    \/ GetAccountsReset(p)
    \/ GetAccountsRefetch(p)
    \/ ExecSelect(p)
    \/ ExecSend(p)
    \/ ExecDialogFind(p)
    \/ ExecDialogWrite(p)
    \/ ExecRecord(p)
    \/ ExecSleep(p)
    \/ StartRevert(p)
    \/ StartComplete(p)

-----------------------------------------------------------------------------
(* Initial states *)

\* An account document as create_account and import_accounts insert it, after
\* some use: its limits are the modelled caps, its reset timestamps are hour 0
\* The default limits delay_min and delay_max of an account, in seconds
DelayMin == 30
DelayMax == 90

Account(id, status, session, hour, day) ==
    [id |-> id,
     status |-> status,
     session_string |-> session,
     max_per_hour |-> MaxPerHour,
     max_per_day |-> MaxPerDay,
     messages_sent_hour |-> hour,
     messages_sent_today |-> day,
     total_messages_sent |-> day,
     total_messages_delivered |-> 0,
     price_category |-> IF id = 1 THEN "low" ELSE "high",
     delay_min |-> DelayMin,
     delay_max |-> DelayMax,
     last_hour_reset |-> 0,
     last_day_reset |-> 0]

\* The accounts a run can meet: a banned one, an active one that was never
\* authorized or lost its session after sending, and authorized ones with
\* their hourly counter anywhere up to the cap and their daily counter either
\* equal to it or at the daily cap
AccountStates(id) ==
    {Account(id, "banned", FALSE, 0, 0)}
    \cup {Account(id, "active", FALSE, MaxPerHour, MaxPerHour)}
    \cup UNION {{Account(id, "active", TRUE, h, d) : d \in {h, MaxPerDay}} :
                   h \in 0..MaxPerHour}

Contact(id, status) == [id |-> id, status |-> status, tags |-> {}]

\* A campaign document as create_campaign inserts it
Campaign(id, status, use_rotation, respect_limits) ==
    [id |-> id,
     status |-> status,
     use_rotation |-> use_rotation,
     respect_limits |-> respect_limits,
     account_ids |-> {},
     account_categories |-> {},
     contact_ids |-> {},
     tag_filter |-> "",
     messages_sent |-> 0,
     messages_delivered |-> 0,
     messages_failed |-> 0]

\* The locals of an add_read_contacts request that has not begun
IdleEnq ==
    [pc |-> "idle",
     voice_message_id |-> None,
     read_contacts |-> <<>>,
     idx |-> 0,
     added |-> 0,
     already_in_queue |-> 0,
     response |-> ""]

\* The locals of a process_queue request that has not begun
IdleDrain ==
    [pc |-> "idle",
     pending_items |-> <<>>,
     idx |-> 0,
     account |-> None,
     result |-> NoResult,
     dialog |-> None,
     sent |-> 0,
     failed |-> 0,
     delayed |-> FALSE,     \* history: the delay was taken after the last voice send
     response |-> ""]

\* ---------------------------------------------------------------------------
\* The Template Renderer.  A text is a sequence of symbols: the characters
\* "{", "}", "|" and " ", and words, each standing for a run of other characters
\* ---------------------------------------------------------------------------

\* The placeholders process_template replaces
VarName == <<"{", "name", "}">>
VarFirstName == <<"{", "first_name", "}">>
VarPhone == <<"{", "phone", "}">>
VarTime == <<"{", "time", "}">>

\* The name used for a contact without one (the words of the source are in
\* Cyrillic; they are written in Latin letters here)
Fallback == <<"drug">>

\* old occurs in text at position i
OccursAt(text, old, i) ==
    /\ i + Len(old) - 1 <= Len(text)
    /\ \A k \in 1..Len(old) : text[i + k - 1] = old[k]

RECURSIVE ReplaceFrom(_, _, _, _)
\* str.replace from position i on: the occurrences are taken left to right and
\* do not overlap; the text put in is not scanned again
ReplaceFrom(text, old, new, i) ==
    IF i > Len(text) THEN <<>>
    ELSE IF OccursAt(text, old, i)
         THEN new \o ReplaceFrom(text, old, new, i + Len(old))
         ELSE <<text[i]>> \o ReplaceFrom(text, old, new, i + 1)

\* text.replace(old, new)
replace(text, old, new) == ReplaceFrom(text, old, new, 1)

\* name.split()[0]: the first run of symbols that are not whitespace
first_token(name) ==
    LET start == CHOOSE i \in 1..Len(name) :
                     name[i] # " " /\ \A k \in 1..(i - 1) : name[k] = " "
        stops == {j \in start..Len(name) : name[j] = " "}
        end == IF stops = {} THEN Len(name) + 1
               ELSE CHOOSE j \in stops : \A k \in stops : j <= k
    IN SubSeq(name, start, end - 1)

\* The greeting for an hour of the day
time_greeting(hour) ==
    IF hour < 12 THEN <<"Dobroe utro">>
    ELSE IF hour < 18 THEN <<"Dobryi den">>
    ELSE <<"Dobryi vecher">>

\* The position of the first brace after position i, 0 when there is none
NextBrace(text, i) ==
    LET braces == {j \in (i + 1)..Len(text) : text[j] \in {"{", "}"}}
    IN IF braces = {} THEN 0 ELSE CHOOSE j \in braces : \A k \in braces : j <= k

\* Where a match of \{([^{}]+\|[^{}]+)\} that begins at position i ends, 0
\* when there is none: the braces enclose no other brace, and a "|" with at
\* least one symbol on either side
SpintaxEnd(text, i) ==
    IF text[i] # "{" THEN 0
    ELSE LET j == NextBrace(text, i)
         IN IF j # 0 /\ text[j] = "}" /\ \E k \in (i + 2)..(j - 2) : text[k] = "|"
            THEN j
            ELSE 0

RECURSIVE split(_, _)
\* s.split(sep) for a separator of one symbol
split(s, sep) ==
    LET seps == {k \in 1..Len(s) : s[k] = sep}
    IN IF seps = {} THEN <<s>>
       ELSE LET k == CHOOSE j \in seps : \A m \in seps : j <= m
            IN <<SubSeq(s, 1, k - 1)>> \o split(SubSeq(s, k + 1, Len(s)), sep)

\* replace_spintax: random.choice over the options of the matched group
replace_spintax(group) == Range(split(group, "|"))

RECURSIVE SubFrom(_, _)
\* re.sub from position i on: the texts it can return, one for every way of
\* choosing an option at each match
SubFrom(text, i) ==
    IF i > Len(text) THEN {<<>>}
    ELSE LET j == SpintaxEnd(text, i)
         IN IF j = 0
            THEN {<<text[i]>> \o rest : rest \in SubFrom(text, i + 1)}
            ELSE {choice \o rest : choice \in replace_spintax(SubSeq(text, i + 1, j - 1)),
                                   rest \in SubFrom(text, j + 1)}

\* The text after the four variable replacements, in the order of the code
Substituted(template, contact, hour) ==
    LET name == IF contact.name = <<>> THEN Fallback ELSE contact.name
        text1 == replace(template, VarName, name)
        text2 == replace(text1, VarFirstName, first_token(name))
        text3 == replace(text2, VarPhone, contact.phone)
    IN replace(text3, VarTime, time_greeting(hour))

\* The texts process_template can return
process_template(template, contact, hour) ==
    SubFrom(Substituted(template, contact, hour), 1)

\* No process_template call has been made
IdleRender ==
    [template |-> <<>>, contact |-> [name |-> <<>>, phone |-> <<>>], output |-> <<>>]

\* No cancel_followup request has been made
IdleCancel == [queue_id |-> None, response |-> ""]

\* No follow-up activity: the part of the state the campaign runs leave alone
NoFollowUp ==
    /\ voice_messages = [v \in VoiceIds |-> [id |-> v, exists |-> TRUE, sent_count |-> 0]]
    /\ followup_queue = <<>>
    /\ enq = [e \in Enqs |-> IdleEnq]
    /\ drain = IdleDrain
    /\ cancel = IdleCancel
    /\ render = IdleRender

\* The message entry an earlier run left in a dialog
EarlierEntry(delivered) ==
    [direction |-> "outgoing",
     status |-> IF delivered THEN "delivered" ELSE "failed",
     error |-> IF delivered THEN "" ELSE MsgNotFound,
     account_id |-> 1]

\* The dialogs earlier runs left: one for every contact of the set S, holding a
\* delivered entry when the contact is messaged and a failed one otherwise
EarlierDialogs(S) ==
    LET ids == SortedSeq(S)
    IN [i \in 1..Len(ids) |->
           [contact_id |-> ids[i],
            account_id |-> 1,
            messages |-> <<EarlierEntry(contacts[ids[i]].status = "messaged")>>]]

\* Contacts that are pending or messaged; a messaged contact has a dialog and
\* a pending one may have one, from a failed attempt
InitContacts ==
    /\ contacts \in {f \in [ConIds -> {Contact(c, st) : c \in ConIds, st \in {"pending", "messaged"}}] :
                        \A c \in ConIds : f[c].id = c}
    /\ \E S \in SUBSET ConIds :
          /\ \A c \in ConIds : contacts[c].status = "messaged" => c \in S
          /\ dialogs = EarlierDialogs(S)

\* One campaign in any status with any flags, accounts and contacts in any of
\* their states, and the clock at most MaxNow hours after the accounts' reset
\* timestamps
Init ==
    /\ telegram_accounts \in {f \in [AccIds -> UNION {AccountStates(a) : a \in AccIds}] :
                                 \A a \in AccIds : f[a].id = a}
    /\ InitContacts
    /\ \E st \in {"draft", "running", "completed"}, rot \in BOOLEAN, lim \in BOOLEAN :
          campaigns = [c \in CampIds |->
                          IF c = 1 THEN Campaign(c, st, rot, lim)
                          ELSE Campaign(c, "draft", TRUE, TRUE)]
    /\ now \in 0..MaxNow
    /\ run = [p \in Runs |-> IdleRun]
    /\ gateway_log = <<>>
    /\ at_start = [p \in Runs |-> Collections]
    /\ NoFollowUp

\* One start_campaign request, for campaign 1, run from its first step to its last
Next ==
    \/ StartRead(1, 1)
    \/ RunStep(1)

Spec == Init /\ [][Next]_vars

-----------------------------------------------------------------------------
(* select_best_account on its own: the function applied to any pool *)

\* The in-flight counts given to the selector go up to this
MaxInFlight == 1

\* An account of a pool given to the selector: any credential, an hourly
\* counter up to the cap, a daily counter equal to it or at the daily cap, an
\* hourly limit of either cap
SelectorAccounts(id) ==
    UNION {{[Account(id, "active", session, h, d) EXCEPT !.max_per_hour = mh] :
               session \in BOOLEAN, d \in {h, MaxPerDay}, mh \in {MaxPerHour, MaxPerDay}} :
           h \in 0..MaxPerHour}

\* The call: the arguments are run[1].authorized_accounts, run[1].account_msg_count
\* and campaign 1's respect_limits, the value returned is run[1].account
SelectCall ==
    /\ run[1].pc = "call_select"
    /\ run' = [run EXCEPT
                  ![1].account = select_best_account(run[1].authorized_accounts,
                                                     run[1].account_msg_count,
                                                     campaigns[1].respect_limits),
                  ![1].pc = "returned"]
    /\ UNCHANGED <<telegram_accounts, contacts, campaigns, dialogs,
                   queue_vars, gateway_log, at_start>>

InitSelect ==
    /\ telegram_accounts \in {f \in [AccIds -> UNION {SelectorAccounts(a) : a \in AccIds}] :
                                 \A a \in AccIds : f[a].id = a}
    /\ contacts = [c \in ConIds |-> Contact(c, "pending")]
    /\ dialogs = <<>>
    /\ \E lim \in BOOLEAN : campaigns = [c \in CampIds |-> Campaign(c, "draft", TRUE, lim)]
    /\ now = 0
    /\ \E cnt \in [AccIds -> 0..MaxInFlight] :
          run = [p \in Runs |->
                    IF p = 1
                    THEN [IdleRun EXCEPT
                             !.pc = "call_select",
                             !.authorized_accounts = [i \in AccIds |-> telegram_accounts[i]],
                             !.account_msg_count = cnt]
                    ELSE IdleRun]
    /\ gateway_log = <<>>
    /\ at_start = [p \in Runs |-> Collections]
    /\ NoFollowUp

SpecSelect == InitSelect /\ [][SelectCall]_vars

\* The checks of the selector's contract, written out for one pool entry
PassesLimits(acc, in_flight) ==
    /\ acc.messages_sent_hour + in_flight < acc.max_per_hour
    /\ acc.messages_sent_today + in_flight < acc.max_per_day

\* C1: under respect_limits the account select_best_account returns has a
\* send credential and is under both caps with its in-flight attempts counted,
\* and it returns None exactly when no account of the pool is
C1_SelectorContract ==
    (run[1].pc = "returned" /\ campaigns[1].respect_limits) =>
        LET pool == run[1].authorized_accounts
            cnt == run[1].account_msg_count
            passing == {i \in 1..Len(pool) :
                           pool[i].session_string /\ PassesLimits(pool[i], cnt[pool[i].id])}
        IN /\ run[1].account # None =>
                 \E i \in passing : pool[i].id = run[1].account
           /\ run[1].account = None <=> passing = {}

\* C1 witness: a call that returned an account while another account of the
\* pool was over a cap
C1_Witness ==
    /\ run[1].pc = "returned"
    /\ campaigns[1].respect_limits
    /\ run[1].account # None
    /\ \E i \in 1..Len(run[1].authorized_accounts) :
          LET acc == run[1].authorized_accounts[i]
          IN acc.session_string /\ ~PassesLimits(acc, run[1].account_msg_count[acc.id])

\* C20: in rotation mode the selector returns, among the eligible accounts,
\* the one with the lowest sent_this_hour + in_flight; among those tied on
\* that load the one with the highest remaining hourly headroom (max_per_hour
\* minus load); among those tied on both the first in pool order
C20_SelectorOrder ==
    run[1].pc = "returned" =>
        LET pool == run[1].authorized_accounts
            cnt == run[1].account_msg_count
            Load(i) == pool[i].messages_sent_hour + cnt[pool[i].id]
            Headroom(i) == pool[i].max_per_hour - Load(i)
            eligible == {i \in 1..Len(pool) :
                            /\ pool[i].session_string
                            /\ campaigns[1].respect_limits =>
                                  PassesLimits(pool[i], cnt[pool[i].id])}
        IN eligible # {} =>
              \E r \in eligible :
                 /\ pool[r].id = run[1].account
                 /\ \A j \in eligible :
                       /\ Load(r) <= Load(j)
                       /\ Load(j) = Load(r) => Headroom(r) >= Headroom(j)
                       /\ (Load(j) = Load(r) /\ Headroom(j) = Headroom(r)) => r <= j

\* C20 witness: the call returned the second account of the pool, the first
\* being eligible with the same load and less headroom
C20_Witness ==
    /\ run[1].pc = "returned"
    /\ campaigns[1].respect_limits
    /\ Len(run[1].authorized_accounts) >= 2
    /\ LET first == run[1].authorized_accounts[1]
           second == run[1].authorized_accounts[2]
           cnt == run[1].account_msg_count
       IN /\ run[1].account = second.id
          /\ first.session_string
          /\ PassesLimits(first, cnt[first.id])
          /\ first.messages_sent_hour + cnt[first.id]
                = second.messages_sent_hour + cnt[second.id]
          /\ first.max_per_hour < second.max_per_hour

-----------------------------------------------------------------------------
(* Claims about one campaign run (Spec) *)

\* The flags of the campaign the request p runs
UseRotation(p) == campaigns[run[p].cid].use_rotation
RespectLimits(p) == campaigns[run[p].cid].respect_limits

\* The run's copy of the account it selected, and that account's in-flight count
Selected(p) == PoolAccount(run[p].authorized_accounts, run[p].account)
InFlight(p) == run[p].account_msg_count[run[p].account]

\* C2: in static mode with respect_limits the executor sends only through an
\* account that is under both caps with its in-flight attempts counted
C2_StaticRespectsLimits ==
    \A p \in Runs :
        (run[p].pc = "send" /\ ~UseRotation(p) /\ RespectLimits(p)) =>
            PassesLimits(Selected(p), InFlight(p))

-----------------------------------------------------------------------------
(* Follow-up queue (services/followup_service.py, routers/followup.py,       *)
(* routers/contacts.py, routers/voice.py)                                    *)

\* What the add_read_contacts and process_queue handlers never touch
campaign_vars == <<campaigns, run, now, at_start, cancel, render>>

MsgVoiceMissing == "Voice message not found"

\* The errors send_voice_message can return: not authorized, recipient not
\* found, str(e) of any other exception
VoiceErrorMessages == {MsgNotAuthorized, MsgNotFound, MsgGeneric}

\* db.followup_queue.find_one({"contact_id": ..., "status": "pending"})
HasPendingItem(contact_id) ==
    \E i \in 1..Len(followup_queue) :
        /\ followup_queue[i].contact_id = contact_id
        /\ followup_queue[i].status = "pending"

\* queue_doc inserted with a status the lookup of pending items does not match
QueueItem_Scheduled(id, contact_id, voice_message_id) ==
    [id |-> id,
     contact_id |-> contact_id,
     voice_message_id |-> voice_message_id,
     status |-> "scheduled",
     error |-> ""]

\* followup_service.py 46-58: queue_doc
QueueItem(id, contact_id, voice_message_id) ==
    [id |-> id,
     contact_id |-> contact_id,
     voice_message_id |-> voice_message_id,
     status |-> "pending",
     error |-> ""]

\* routers/followup.py 45-47: the voice message is looked up; none answers 404
EnqBegin(e, v) ==
    /\ enq[e].pc \in {"idle", "done"}
    /\ enq' = [enq EXCEPT ![e] =
                  IF voice_messages[v].exists
                  THEN [IdleEnq EXCEPT !.pc = "service_voice", !.voice_message_id = v]
                  ELSE [IdleEnq EXCEPT !.pc = "done", !.voice_message_id = v,
                                       !.response = "Voice message not found"]]
    /\ UNCHANGED <<telegram_accounts, contacts, dialogs, voice_messages,
                   followup_queue, drain, gateway_log, campaign_vars>>

\* followup_service.py 27-29: add_to_followup_queue looks the voice message up again
EnqServiceVoice(e) ==
    /\ enq[e].pc = "service_voice"
    /\ enq' = [enq EXCEPT
                  ![e].pc = IF voice_messages[enq[e].voice_message_id].exists
                            THEN "fetch_read" ELSE "done",
                  ![e].response = IF voice_messages[enq[e].voice_message_id].exists
                                  THEN @ ELSE "Voice message not found"]
    /\ UNCHANGED <<telegram_accounts, contacts, dialogs, voice_messages,
                   followup_queue, drain, gateway_log, campaign_vars>>

\* followup_service.py 16-22: the contacts with status read, in id order
get_read_not_replied_contacts ==
    SortedSeq({c \in ConIds : contacts[c].status = "read"})

\* The pc after the loop of add_to_followup_queue has handled position idx
NextReadPc(e) ==
    IF enq[e].idx < Len(enq[e].read_contacts) THEN "find_existing" ELSE "done"

\* followup_service.py 31-36
EnqFetchRead(e) ==
    /\ enq[e].pc = "fetch_read"
    /\ LET read == get_read_not_replied_contacts
       IN enq' = [enq EXCEPT
                     ![e].read_contacts = read,
                     ![e].idx = 1,
                     ![e].pc = IF read = <<>> THEN "done" ELSE "find_existing",
                     ![e].response = IF read = <<>> THEN "added" ELSE @]
    /\ UNCHANGED <<telegram_accounts, contacts, dialogs, voice_messages,
                   followup_queue, drain, gateway_log, campaign_vars>>

\* add_to_followup_queue without the lookup of an existing pending item
EnqFindExisting_NoLookup(e) ==
    /\ enq[e].pc = "find_existing"
    /\ enq' = [enq EXCEPT ![e].pc = "insert"]
    /\ UNCHANGED <<telegram_accounts, contacts, dialogs, voice_messages,
                   followup_queue, drain, gateway_log, campaign_vars>>

\* followup_service.py 37-44: a contact with a pending item is counted and skipped
EnqFindExisting(e) ==
    /\ enq[e].pc = "find_existing"
    /\ IF HasPendingItem(enq[e].read_contacts[enq[e].idx])
       THEN enq' = [enq EXCEPT
                       ![e].already_in_queue = @ + 1,
                       ![e].idx = @ + 1,
                       ![e].pc = NextReadPc(e),
                       ![e].response = IF NextReadPc(e) = "done" THEN "added" ELSE @]
       ELSE enq' = [enq EXCEPT ![e].pc = "insert"]
    /\ UNCHANGED <<telegram_accounts, contacts, dialogs, voice_messages,
                   followup_queue, drain, gateway_log, campaign_vars>>

\* followup_service.py 46-60: the new pending item is inserted
EnqInsert(e) ==
    /\ enq[e].pc = "insert"
    /\ followup_queue' = Append(followup_queue,
                                QueueItem(Len(followup_queue) + 1,
                                          enq[e].read_contacts[enq[e].idx],
                                          enq[e].voice_message_id))
    /\ enq' = [enq EXCEPT
                  ![e].added = @ + 1,
                  ![e].idx = @ + 1,
                  ![e].pc = NextReadPc(e),
                  ![e].response = IF NextReadPc(e) = "done" THEN "added" ELSE @]
    /\ UNCHANGED <<telegram_accounts, contacts, dialogs, voice_messages,
                   drain, gateway_log, campaign_vars>>

\* One step of the add_read_contacts request e after its first
EnqStep(e) ==
    \/ EnqServiceVoice(e)
    \/ EnqFetchRead(e)
    \/ EnqFindExisting(e)
    \/ EnqInsert(e)

\* followup_service.py 88-92: the first active account with a session string
FirstSendingAccount ==
    LET ids == {a \in AccIds : /\ telegram_accounts[a].status = "active"
                               /\ telegram_accounts[a].session_string}
    IN IF ids = {} THEN None ELSE CHOOSE a \in ids : \A b \in ids : a <= b

\* followup_service.py 74-85: the pending items are listed; none ends the drain
DrainBegin ==
    /\ drain.pc \in {"idle", "done"}
    /\ LET pending == SelectSeq(followup_queue, LAMBDA item : item.status = "pending")
       IN drain' = IF pending = <<>>
                   THEN [IdleDrain EXCEPT !.pc = "done", !.response = "No pending follow-ups"]
                   ELSE [IdleDrain EXCEPT !.pc = "find_account", !.pending_items = pending]
    /\ UNCHANGED <<telegram_accounts, contacts, dialogs, voice_messages,
                   followup_queue, enq, gateway_log, campaign_vars>>

\* followup_service.py 87-104: the sending account; none ends the drain
DrainFindAccount ==
    /\ drain.pc = "find_account"
    /\ drain' = IF FirstSendingAccount = None
                THEN [drain EXCEPT !.pc = "done",
                                   !.response = "No authorized accounts available"]
                ELSE [drain EXCEPT !.pc = "voice_lookup", !.idx = 1,
                                   !.account = FirstSendingAccount]
    /\ UNCHANGED <<telegram_accounts, contacts, dialogs, voice_messages,
                   followup_queue, enq, gateway_log, campaign_vars>>

\* The item the loop of process_followup_queue is at
DrainItem == drain.pending_items[drain.idx]

\* The locals after the loop has handled the item at position idx
NextItem(d) ==
    [d EXCEPT !.idx = @ + 1,
              !.result = NoResult,
              !.dialog = None,
              !.pc = IF d.idx < Len(d.pending_items) THEN "voice_lookup" ELSE "done",
              !.response = IF d.idx < Len(d.pending_items) THEN @ ELSE "processed"]

\* The loop of process_followup_queue without the check of the voice message
DrainVoiceLookup_Unchecked ==
    /\ drain.pc = "voice_lookup"
    /\ drain' = [drain EXCEPT !.pc = "voice_send"]
    /\ UNCHANGED <<telegram_accounts, contacts, dialogs, voice_messages,
                   followup_queue, enq, gateway_log, campaign_vars>>

\* followup_service.py 107-109: the item's voice message is looked up
DrainVoiceLookup ==
    /\ drain.pc = "voice_lookup"
    /\ drain' = [drain EXCEPT
                    !.pc = IF voice_messages[DrainItem.voice_message_id].exists
                           THEN "voice_send" ELSE "mark_missing"]
    /\ UNCHANGED <<telegram_accounts, contacts, dialogs, voice_messages,
                   followup_queue, enq, gateway_log, campaign_vars>>

\* followup_service.py 110-115: without its voice message the item fails
DrainMarkMissing ==
    /\ drain.pc = "mark_missing"
    /\ followup_queue' = [followup_queue EXCEPT
                             ![DrainItem.id].status = "failed",
                             ![DrainItem.id].error = MsgVoiceMissing]
    /\ drain' = NextItem([drain EXCEPT !.failed = @ + 1])
    /\ UNCHANGED <<telegram_accounts, contacts, dialogs, voice_messages,
                   enq, gateway_log, campaign_vars>>

\* The call of send_voice_message with the attempt counted for the account,
\* as execute_campaign counts its attempts
DrainSend_Counted ==
    /\ drain.pc = "voice_send"
    /\ \E result \in {SentResult} \cup {ErrorResult(m) : m \in VoiceErrorMessages} :
          /\ drain' = [drain EXCEPT
                          !.result = result,
                          !.delayed = FALSE,
                          !.pc = IF result.status = "sent" THEN "mark_sent" ELSE "mark_failed"]
          /\ telegram_accounts' =
                [telegram_accounts EXCEPT
                    ![drain.account] = record_send(@, result.status = "sent")]
          /\ gateway_log' = Append(gateway_log,
                                   [kind |-> "voice", by |-> DrainItem.id,
                                    account |-> drain.account,
                                    contact |-> DrainItem.contact_id,
                                    result |-> result])
    /\ UNCHANGED <<contacts, dialogs, voice_messages,
                   followup_queue, enq, campaign_vars>>

\* followup_service.py 117-129 and telegram_service.py 641-672: the call of
\* send_voice_message, which stores nothing
DrainSend ==
    /\ drain.pc = "voice_send"
    /\ \E result \in {SentResult} \cup {ErrorResult(m) : m \in VoiceErrorMessages} :
          /\ drain' = [drain EXCEPT
                          !.result = result,
                          !.delayed = FALSE,
                          !.pc = IF result.status = "sent" THEN "mark_sent" ELSE "mark_failed"]
          /\ gateway_log' = Append(gateway_log,
                                   [kind |-> "voice", by |-> DrainItem.id,
                                    account |-> drain.account,
                                    contact |-> DrainItem.contact_id,
                                    result |-> result])
    /\ UNCHANGED <<telegram_accounts, contacts, dialogs, voice_messages,
                   followup_queue, enq, campaign_vars>>

\* followup_service.py 130-133: the item is sent
DrainMarkSent ==
    /\ drain.pc = "mark_sent"
    /\ followup_queue' = [followup_queue EXCEPT ![DrainItem.id].status = "sent"]
    /\ drain' = [drain EXCEPT !.pc = "contact_update"]
    /\ UNCHANGED <<telegram_accounts, contacts, dialogs, voice_messages,
                   enq, gateway_log, campaign_vars>>

\* followup_service.py 135-139: the contact is voice_sent
DrainContactUpdate ==
    /\ drain.pc = "contact_update"
    /\ contacts' = [contacts EXCEPT ![DrainItem.contact_id].status = "voice_sent"]
    /\ drain' = [drain EXCEPT !.pc = "voice_count"]
    /\ UNCHANGED <<telegram_accounts, dialogs, voice_messages, followup_queue,
                   enq, gateway_log, campaign_vars>>

\* followup_service.py 141-145: the voice message's sent_count, if it is still stored
DrainVoiceCount ==
    /\ drain.pc = "voice_count"
    /\ voice_messages' = [voice_messages EXCEPT
                             ![DrainItem.voice_message_id].sent_count =
                                 IF voice_messages[DrainItem.voice_message_id].exists
                                 THEN @ + 1 ELSE @]
    /\ drain' = [drain EXCEPT !.pc = "dialog_find"]
    /\ UNCHANGED <<telegram_accounts, contacts, dialogs, followup_queue,
                   enq, gateway_log, campaign_vars>>

\* followup_service.py 147-149: the contact's dialog is looked up
DrainDialogFind ==
    /\ drain.pc = "dialog_find"
    /\ LET dialog == FindDialog(DrainItem.contact_id)
       IN drain' = [drain EXCEPT !.dialog = dialog,
                                 !.pc = IF dialog = None THEN "sleep" ELSE "dialog_push"]
    /\ UNCHANGED <<telegram_accounts, contacts, dialogs, voice_messages,
                   followup_queue, enq, gateway_log, campaign_vars>>

\* followup_service.py 152-160: the voice entry
VoiceEntry ==
    [direction |-> "outgoing",
     type |-> "voice",
     status |-> "delivered"]

\* followup_service.py 149-161: the entry is pushed to the dialog found
DrainDialogPush ==
    /\ drain.pc = "dialog_push"
    /\ dialogs' = [dialogs EXCEPT ![drain.dialog].messages = Append(@, VoiceEntry)]
    /\ drain' = [drain EXCEPT !.pc = "sleep"]
    /\ UNCHANGED <<telegram_accounts, contacts, voice_messages, followup_queue,
                   enq, gateway_log, campaign_vars>>

\* followup_service.py 163-167: the send is counted, then the fixed delay
DrainSleep ==
    /\ drain.pc = "sleep"
    /\ drain' = NextItem([drain EXCEPT !.sent = @ + 1, !.delayed = TRUE])
    /\ UNCHANGED <<telegram_accounts, contacts, dialogs, voice_messages,
                   followup_queue, enq, gateway_log, campaign_vars>>

\* followup_service.py 168-176: the item fails with the gateway's error; no delay
DrainMarkFailed ==
    /\ drain.pc = "mark_failed"
    /\ followup_queue' = [followup_queue EXCEPT
                             ![DrainItem.id].status = "failed",
                             ![DrainItem.id].error = drain.result.message]
    /\ drain' = NextItem([drain EXCEPT !.failed = @ + 1])
    /\ UNCHANGED <<telegram_accounts, contacts, dialogs, voice_messages,
                   enq, gateway_log, campaign_vars>>

\* One step of the process_queue request after its first
DrainStep ==
    \/ DrainFindAccount
    \/ DrainVoiceLookup
    \/ DrainMarkMissing
    \/ DrainSend
    \/ DrainMarkSent
    \/ DrainContactUpdate
    \/ DrainVoiceCount
    \/ DrainDialogFind
    \/ DrainDialogPush
    \/ DrainSleep
    \/ DrainMarkFailed

\* routers/contacts.py 98-107, mark_contact_read: the contact is read, whatever it was
mark_contact_read(c) ==
    /\ contacts' = [contacts EXCEPT ![c].status = "read"]
    /\ UNCHANGED <<telegram_accounts, dialogs, voice_messages, followup_queue,
                   enq, drain, gateway_log, campaign_vars>>

MsgCancelled == "Cancelled"
MsgNotCancellable == "Queue item not found or already processed"

\* cancel_followup with the status left out of the update's filter
cancel_followup_AnyStatus(q) ==
    LET matched == q \in 1..Len(followup_queue)
    IN /\ followup_queue' =
             IF matched
             THEN [followup_queue EXCEPT ![q].status = "cancelled"]
             ELSE followup_queue
       /\ cancel' = [queue_id |-> q,
                     response |-> IF matched THEN MsgCancelled ELSE MsgNotCancellable]
    /\ UNCHANGED <<telegram_accounts, contacts, dialogs, voice_messages,
                   enq, drain, gateway_log, campaigns, run, now, at_start,
                   render>>

\* routers/followup.py 69-78, cancel_followup: the update matches the item
\* only while it is pending; matched_count 0 answers 404
cancel_followup(q) ==
    LET matched == q \in 1..Len(followup_queue) /\ followup_queue[q].status = "pending"
    IN /\ followup_queue' =
             IF matched
             THEN [followup_queue EXCEPT ![q].status = "cancelled"]
             ELSE followup_queue
       /\ cancel' = [queue_id |-> q,
                     response |-> IF matched THEN MsgCancelled ELSE MsgNotCancellable]
    /\ UNCHANGED <<telegram_accounts, contacts, dialogs, voice_messages,
                   enq, drain, gateway_log, campaigns, run, now, at_start,
                   render>>

\* routers/voice.py 94-107, delete_voice_message
delete_voice_message(v) ==
    /\ voice_messages[v].exists
    /\ voice_messages' = [voice_messages EXCEPT ![v].exists = FALSE]
    /\ UNCHANGED <<telegram_accounts, contacts, dialogs, followup_queue,
                   enq, drain, gateway_log, campaign_vars>>

-----------------------------------------------------------------------------
(* The follow-up requests one at a time                                      *)

MaxQueue == 3

\* No add_read_contacts and no process_queue request is between two of its steps
NoRequestInProgress ==
    /\ drain.pc \in {"idle", "done"}
    /\ \A e \in Enqs : enq[e].pc \in {"idle", "done"}

\* Account 1 authorized or banned, the other accounts banned; contact 1
\* messaged, with its dialog, the other contacts pending; no campaign is started
InitQueue ==
    /\ \E st \in {"active", "banned"} :
          telegram_accounts = [a \in AccIds |->
                                  IF a = 1 THEN Account(a, st, TRUE, 0, 0)
                                  ELSE Account(a, "banned", TRUE, 0, 0)]
    /\ contacts = [c \in ConIds |-> Contact(c, IF c = 1 THEN "messaged" ELSE "pending")]
    /\ dialogs = EarlierDialogs({1})
    /\ campaigns = [c \in CampIds |-> Campaign(c, "draft", TRUE, TRUE)]
    /\ now = 0
    /\ run = [p \in Runs |-> IdleRun]
    /\ gateway_log = <<>>
    /\ at_start = [p \in Runs |-> Collections]
    /\ NoFollowUp

\* A request begins when no other is in progress and runs to its end; the
\* queue is kept within MaxQueue items; the cancels are those of pending
\* items, a rejected one changes no collection
NextQueue ==
    \/ /\ NoRequestInProgress
       /\ Len(followup_queue) + NumContacts <= MaxQueue
       /\ \E v \in VoiceIds : EnqBegin(1, v)
    \/ EnqStep(1)
    \/ NoRequestInProgress /\ DrainBegin
    \/ DrainStep
    \/ NoRequestInProgress /\ \E c \in ConIds : mark_contact_read(c)
    \/ /\ NoRequestInProgress
       /\ \E q \in 1..Len(followup_queue) :
             followup_queue[q].status = "pending" /\ cancel_followup(q)
    \/ NoRequestInProgress /\ \E v \in VoiceIds : delete_voice_message(v)

SpecQueue == InitQueue /\ [][NextQueue]_vars

\* The pending items of a contact
PendingItems(contact_id) ==
    {i \in 1..Len(followup_queue) :
        /\ followup_queue[i].contact_id = contact_id
        /\ followup_queue[i].status = "pending"}

\* C3: with enqueue, mark-read, drain and cancel run one at a time, every
\* contact has at most one follow-up queue item with status pending
C3_OnePendingPerContact ==
    \A c \in ConIds : Cardinality(PendingItems(c)) <= 1

\* An enqueue found a contact already pending and skipped it, and the queue
\* holds a pending item next to a cancelled or sent one
C3_Witness ==
    /\ \E e \in Enqs : enq[e].pc = "done" /\ enq[e].already_in_queue > 0
    /\ \E c \in ConIds : PendingItems(c) # {}
    /\ \E i \in 1..Len(followup_queue) : followup_queue[i].status \in {"cancelled", "sent"}

-----------------------------------------------------------------------------
(* Two add_read_contacts requests interleaved at their storage steps         *)

\* Every contact read or pending
InitQueueRace ==
    /\ telegram_accounts = [a \in AccIds |-> Account(a, "active", TRUE, 0, 0)]
    /\ contacts \in {f \in [ConIds -> {Contact(c, st) : c \in ConIds, st \in {"pending", "read"}}] :
                        \A c \in ConIds : f[c].id = c}
    /\ dialogs = <<>>
    /\ campaigns = [c \in CampIds |-> Campaign(c, "draft", TRUE, TRUE)]
    /\ now = 0
    /\ run = [p \in Runs |-> IdleRun]
    /\ gateway_log = <<>>
    /\ at_start = [p \in Runs |-> Collections]
    /\ NoFollowUp

\* Each request is made once; their steps interleave freely
NextQueueRace ==
    \/ \E e \in Enqs, v \in VoiceIds : enq[e].pc = "idle" /\ EnqBegin(e, v)
    \/ \E e \in Enqs : EnqStep(e)

SpecQueueRace == InitQueueRace /\ [][NextQueueRace]_vars

\* C4: when two enqueue calls interleave at their storage steps, no contact
\* ends up with two pending queue items
C4_NoDuplicateAfterRace ==
    (\A e \in Enqs : enq[e].pc = "done") =>
        \A c \in ConIds : Cardinality(PendingItems(c)) < 2

-----------------------------------------------------------------------------
(* Two start_campaign requests for the same campaign, interleaved            *)

\* Campaign 1 is a draft or running, contact 1 is pending, both accounts are
\* authorized with nothing sent
InitStartRace ==
    /\ telegram_accounts = [a \in AccIds |-> Account(a, "active", TRUE, 0, 0)]
    /\ contacts = [c \in ConIds |-> Contact(c, IF c = 1 THEN "pending" ELSE "messaged")]
    /\ dialogs = EarlierDialogs({c \in ConIds : c # 1})
    /\ \E st \in {"draft", "running"}, rot \in BOOLEAN :
          campaigns = [c \in CampIds |->
                          IF c = 1 THEN Campaign(c, st, rot, TRUE)
                          ELSE Campaign(c, "draft", TRUE, TRUE)]
    /\ now = 0
    /\ run = [p \in Runs |-> IdleRun]
    /\ gateway_log = <<>>
    /\ at_start = [p \in Runs |-> Collections]
    /\ NoFollowUp

\* Each request is made once; their steps interleave freely
NextStartRace ==
    \/ \E p \in Runs : StartRead(p, 1)
    \/ \E p \in Runs : RunStep(p)

SpecStartRace == InitStartRace /\ [][NextStartRace]_vars

\* The requests that are inside execute_campaign for campaign c
Executing(c) ==
    {p \in Runs : /\ run[p].cid = c
                  /\ run[p].pc \notin {"idle", "set_running", "revert", "complete", "done"}}

\* C5: at any time at most one execution of a campaign is in progress, also
\* when two start requests interleave between the status read and the write of
\* status running; a request that reads status running is rejected without a send
C5_OneExecution ==
    /\ \A c \in CampIds : Cardinality(Executing(c)) <= 1
    /\ \A p \in Runs :
          (run[p].pc = "done" /\ at_start[p].campaigns[1].status = "running") =>
              /\ run[p].response = "already running"
              /\ \A i \in 1..Len(gateway_log) : gateway_log[i].by # p

-----------------------------------------------------------------------------
(* One start request: status, counters, failures                             *)

\* The status of campaign c changes from old to new in this step
StatusStep(c, old, new) ==
    /\ campaigns[c].status = old
    /\ campaigns'[c].status = new

\* C6: a campaign's status changes only along draft -> running, running ->
\* completed and running -> draft, whatever its status when it is started
C6_StatusTransitions ==
    [][\A c \in CampIds :
          campaigns'[c].status # campaigns[c].status =>
              \/ StatusStep(c, "draft", "running")
              \/ StatusStep(c, "running", "completed")
              \/ StatusStep(c, "running", "draft")]_vars

\* The answers of a run that failed at run level
RunLevelErrors == {"No contacts found", "No authorized accounts available"}

\* The counters of an account document
AccountCounters(doc) ==
    <<doc.messages_sent_hour, doc.messages_sent_today,
      doc.total_messages_sent, doc.total_messages_delivered>>

\* The counters of a campaign document
CampaignCounters(doc) ==
    <<doc.messages_sent, doc.messages_delivered, doc.messages_failed>>

\* C7: after a run-level failure the campaign is a draft and every counter of
\* every account and of the campaign, every contact status and every dialog is
\* what it was before the start request
C7_RunLevelFailureChangesNothing ==
    \A p \in Runs :
       (run[p].pc = "done" /\ run[p].response \in RunLevelErrors) =>
          /\ campaigns[run[p].cid].status = "draft"
          /\ \A a \in AccIds : AccountCounters(telegram_accounts[a])
                                  = AccountCounters(at_start[p].telegram_accounts[a])
          /\ CampaignCounters(campaigns[run[p].cid])
                = CampaignCounters(at_start[p].campaigns[run[p].cid])
          /\ \A c \in ConIds : contacts[c].status = at_start[p].contacts[c].status
          /\ dialogs = at_start[p].dialogs

-----------------------------------------------------------------------------
(* One start request on a draft campaign: the send loop                      *)

\* An account that is banned, or authorized with nothing sent, or authorized
\* with its hourly cap used up
SendAccounts(a) ==
    {Account(a, "banned", TRUE, 0, 0),
     Account(a, "active", TRUE, 0, 0),
     Account(a, "active", TRUE, MaxPerHour, MaxPerHour)}

\* The contacts all pending or all messaged, with dialogs from earlier runs for
\* all of them or, when they are pending, for none
InitSend ==
    /\ telegram_accounts \in {f \in [AccIds -> UNION {SendAccounts(a) : a \in AccIds}] :
                                 \A a \in AccIds : f[a].id = a}
    /\ \E st \in {"pending", "messaged"} :
          contacts = [c \in ConIds |-> Contact(c, st)]
    /\ \E S \in {{}, ConIds} :
          /\ \A c \in ConIds : contacts[c].status = "messaged" => c \in S
          /\ dialogs = EarlierDialogs(S)
    /\ \E rot \in BOOLEAN, lim \in BOOLEAN :
          campaigns = [c \in CampIds |->
                          IF c = 1 THEN Campaign(c, "draft", rot, lim)
                          ELSE Campaign(c, "draft", TRUE, TRUE)]
    /\ now \in 0..MaxNow
    /\ run = [p \in Runs |-> IdleRun]
    /\ gateway_log = <<>>
    /\ at_start = [p \in Runs |-> Collections]
    /\ NoFollowUp

SpecSend == InitSend /\ [][Next]_vars

\* The positions of gateway_log holding the text sends of request p
Attempts(p) ==
    {i \in 1..Len(gateway_log) : gateway_log[i].kind = "text" /\ gateway_log[i].by = p}

\* The attempts of request p the executor has recorded: all but the one it is
\* between send_message and the sleep of
Recorded(p) ==
    IF run[p].pc \in {"dialog_find", "dialog_write", "record"}
    THEN {i \in Attempts(p) : i < Len(gateway_log)}
    ELSE Attempts(p)

\* The recorded attempts of request p that were not delivered
FailedAttempts(p) ==
    {i \in Recorded(p) : gateway_log[i].result.status # "sent"}

\* After the recorded attempt i reported message m, the run counts the attempt
\* as failed, the account's stored status is status, and no later attempt of
\* the run goes through the account
Disabled(p, i, status) ==
    /\ run[p].messages_failed = Cardinality(FailedAttempts(p))
    /\ i \in FailedAttempts(p)
    /\ telegram_accounts[gateway_log[i].account].status = status
    /\ \A j \in Attempts(p) : j > i => gateway_log[j].account # gateway_log[i].account

\* C8: when the gateway reports a ban for an account on a send attempt of a
\* run, the account's stored status becomes banned, the message counts as
\* failed, and no later contact of the run is sent through that account
C8_BanDisablesAccount ==
    \A p \in Runs : \A i \in Recorded(p) :
       ContainsBanned(gateway_log[i].result.message) => Disabled(p, i, "banned")

\* A ban on the first attempt of a run, and the next contact sent through the
\* other account
C8_Witness ==
    \E p \in Runs : \E i, j \in Recorded(p) :
       /\ i < j
       /\ gateway_log[i].result.message = MsgBanned
       /\ gateway_log[j].account # gateway_log[i].account
       /\ gateway_log[j].contact # gateway_log[i].contact

\* C9: when the gateway reports an invalidated session for an account on a
\* send attempt of a run, the account's stored status becomes session_expired,
\* the message counts as failed, and no later contact of the run is sent
\* through that account
C9_ExpiredSessionDisablesAccount ==
    \A p \in Runs : \A i \in Recorded(p) :
       gateway_log[i].result.message = MsgExpired => Disabled(p, i, "session_expired")

\* The contact the loop of request p is at
CurrentContact(p) == run[p].contacts[run[p].idx]

\* The last entry of the first dialog of a contact, in the state after the step
LastEntryAfter(contact_id) ==
    LET i == CHOOSE k \in 1..Len(dialogs') : dialogs'[k].contact_id = contact_id
    IN dialogs'[i].messages[Len(dialogs'[i].messages)]

\* The number of entries in the dialogs of a contact
Entries(ds, contact_id) ==
    LET own == SelectSeq(ds, LAMBDA d : d.contact_id = contact_id)
    IN IF own = <<>> THEN 0 ELSE Len(own[1].messages)

\* C10: on a recoverable send failure the executor appends a failed dialog
\* entry with the error, adds 1 to the run's failed count and to the account's
\* hour, day and total counters, leaves total_delivered, the account's status
\* and the run's pool as they are, and leaves the contact pending
C10_RecoverableFailure ==
    [][\A p \in Runs :
          run[p].result.message \in RecoverableMessages =>
             /\ (run[p].pc = "dialog_write" /\ run'[p].pc = "record") =>
                   /\ Entries(dialogs', CurrentContact(p)) = Entries(dialogs, CurrentContact(p)) + 1
                   /\ LastEntryAfter(CurrentContact(p)).status = "failed"
                   /\ LastEntryAfter(CurrentContact(p)).error = run[p].result.message
             /\ (run[p].pc = "record" /\ run'[p].pc = "sleep") =>
                   LET old == telegram_accounts[run[p].account]
                       new == telegram_accounts'[run[p].account]
                   IN /\ run'[p].messages_failed = run[p].messages_failed + 1
                      /\ run'[p].messages_delivered = run[p].messages_delivered
                      /\ new.messages_sent_hour = old.messages_sent_hour + 1
                      /\ new.messages_sent_today = old.messages_sent_today + 1
                      /\ new.total_messages_sent = old.total_messages_sent + 1
                      /\ new.total_messages_delivered = old.total_messages_delivered
                      /\ new.status = old.status
                      /\ run'[p].authorized_accounts = run[p].authorized_accounts
                      /\ contacts'[CurrentContact(p)].status = "pending"]_vars

\* A recoverable failure recorded for an active account, which the run sends
\* the next contact through again
C10_Witness ==
    \E p \in Runs : \E i, j \in Recorded(p) :
       /\ i < j
       /\ gateway_log[i].result.message \in RecoverableMessages
       /\ gateway_log[j].account = gateway_log[i].account
       /\ at_start[p].telegram_accounts[gateway_log[i].account].status = "active"
       /\ contacts[gateway_log[i].contact].status = "pending"

-----------------------------------------------------------------------------
(* reset_account_counters applied to one account                             *)

MaxClock == 25

\* The reset timestamps an account document can hold: none, an unparsable
\* string, or a time
Timestamps == {NoTimestamp, Malformed, 0, 1}

\* Account 1 with any counters and any reset timestamps
RefreshAccounts ==
    UNION {{[Account(1, "active", TRUE, h, d) EXCEPT !.last_hour_reset = th,
                                                     !.last_day_reset = td] :
               d \in {h, MaxPerDay}, th \in Timestamps, td \in Timestamps} :
           h \in 0..MaxPerHour}

\* The call: the arguments are the stored document of account 1 and now
RefreshCall ==
    /\ run[1].pc = "call_refresh"
    /\ telegram_accounts' =
          [telegram_accounts EXCEPT
              ![1] = reset_account_counters(@, telegram_accounts[1], now)]
    /\ run' = [run EXCEPT ![1].pc = "returned"]
    /\ UNCHANGED <<contacts, campaigns, dialogs, queue_vars, gateway_log, at_start>>

InitRefresh ==
    /\ \E acc \in RefreshAccounts :
          telegram_accounts = [a \in AccIds |->
                                  IF a = 1 THEN acc ELSE Account(a, "banned", FALSE, 0, 0)]
    /\ contacts = [c \in ConIds |-> Contact(c, "pending")]
    /\ dialogs = <<>>
    /\ campaigns = [c \in CampIds |-> Campaign(c, "draft", TRUE, TRUE)]
    /\ now \in 0..MaxClock
    /\ run = [p \in Runs |-> IF p = 1 THEN [IdleRun EXCEPT !.pc = "call_refresh"] ELSE IdleRun]
    /\ gateway_log = <<>>
    /\ at_start = [p \in Runs |-> Collections]
    /\ NoFollowUp

SpecRefresh == InitRefresh /\ [][RefreshCall]_vars

\* The account before and after the call
Before == at_start[1].telegram_accounts[1]
After == telegram_accounts[1]

\* C11: refresh sets sent_this_hour to 0 and the hourly timestamp to now when
\* now - last_hour_reset >= 1 hour and leaves both unchanged otherwise; it does
\* the same, independently, for sent_today and the daily timestamp with 1 day;
\* lifetime counters and limits are never changed
C11_RefreshWindows ==
    run[1].pc = "returned" =>
       /\ Before.last_hour_reset >= 0 =>
             IF now - Before.last_hour_reset >= HOUR
             THEN After.messages_sent_hour = 0 /\ After.last_hour_reset = now
             ELSE /\ After.messages_sent_hour = Before.messages_sent_hour
                  /\ After.last_hour_reset = Before.last_hour_reset
       /\ Before.last_day_reset >= 0 =>
             IF now - Before.last_day_reset >= DAY
             THEN After.messages_sent_today = 0 /\ After.last_day_reset = now
             ELSE /\ After.messages_sent_today = Before.messages_sent_today
                  /\ After.last_day_reset = Before.last_day_reset
       /\ After.total_messages_sent = Before.total_messages_sent
       /\ After.total_messages_delivered = Before.total_messages_delivered
       /\ After.max_per_hour = Before.max_per_hour
       /\ After.max_per_day = Before.max_per_day

\* A call exactly one hour after the hourly timestamp and less than a day
\* after the daily one: the hourly counter is reset, the daily one is kept
C11_Witness ==
    /\ run[1].pc = "returned"
    /\ Before.last_hour_reset >= 0
    /\ Before.last_day_reset >= 0
    /\ now - Before.last_hour_reset = HOUR
    /\ Before.messages_sent_hour > 0
    /\ After.messages_sent_hour = 0
    /\ After.messages_sent_today = Before.messages_sent_today
    /\ After.messages_sent_today > 0

\* C12: an account whose hourly (or daily) reset timestamp is missing or
\* malformed is due for reset now: refresh sets the counter to 0 and writes
\* the timestamp as now
C12_BadTimestampResets ==
    run[1].pc = "returned" =>
       /\ Before.last_hour_reset \in {NoTimestamp, Malformed} =>
             After.messages_sent_hour = 0 /\ After.last_hour_reset = now
       /\ Before.last_day_reset \in {NoTimestamp, Malformed} =>
             After.messages_sent_today = 0 /\ After.last_day_reset = now

-----------------------------------------------------------------------------
(* One start request with a single authorized account                        *)

\* Account 1 authorized with any counters, the other accounts banned or
\* active without a session; rotation on and limits respected
InitSlots ==
    /\ \E h \in 0..MaxPerHour, d \in 0..MaxPerDay,
          other \in {<<"banned", FALSE>>, <<"active", FALSE>>, <<"active", TRUE>>} :
          /\ h <= d
          /\ telegram_accounts = [a \in AccIds |->
                                     IF a = 1 THEN Account(a, "active", TRUE, h, d)
                                     ELSE Account(a, other[1], other[2], 0, 0)]
    /\ InitContacts
    /\ campaigns = [c \in CampIds |-> Campaign(c, "draft", TRUE, TRUE)]
    /\ now \in 0..MaxNow
    /\ run = [p \in Runs |-> IdleRun]
    /\ gateway_log = <<>>
    /\ at_start = [p \in Runs |-> Collections]
    /\ NoFollowUp

SpecSlots == InitSlots /\ [][Next]_vars

\* The accounts of the pool request p began its loop with
PoolAtStart(p) ==
    {a \in AccIds : /\ MatchesAccountQuery(at_start[p].telegram_accounts[a],
                                           at_start[p].campaigns[run[p].cid])
                    /\ at_start[p].telegram_accounts[a].session_string}

\* The document of account a after get_available_accounts has refreshed it
Refreshed(p, a) ==
    reset_account_counters(at_start[p].telegram_accounts[a],
                           at_start[p].telegram_accounts[a], now)

Max(x, y) == IF x >= y THEN x ELSE y
Min(x, y) == IF x <= y THEN x ELSE y

\* The hourly slots, and the slots under both caps, account a has left
HourlySlots(p, a) ==
    Max(0, Refreshed(p, a).max_per_hour - Refreshed(p, a).messages_sent_hour)
Slots(p, a) ==
    Min(HourlySlots(p, a),
        Max(0, Refreshed(p, a).max_per_day - Refreshed(p, a).messages_sent_today))

\* Request p has completed a run with rotation on and limits respected
RotationRunDone(p) ==
    /\ run[p].pc = "done"
    /\ run[p].response = "Campaign completed"
    /\ UseRotation(p)
    /\ RespectLimits(p)

\* Request p made exactly n send attempts, to the first n of its contacts,
\* skipped the others and reports it
AttemptedFirst(p, n) ==
    /\ Cardinality(Attempts(p)) = n
    /\ \A i \in 1..n : \E k \in Attempts(p) : gateway_log[k].contact = run[p].contacts[i]
    /\ run[p].messages_sent = n
    /\ run[p].skipped_due_to_limits = Len(run[p].contacts) - n
    /\ campaigns[run[p].cid].messages_sent = n

\* C13: a run with rotation on, limits respected and a single authorized
\* account with N hourly slots left, over M > N eligible contacts, attempts
\* the first N contacts, skips the others and reports sent = N and
\* skipped_due_to_limits = M - N
C13_SlotsThenSkips ==
    \A p \in Runs : \A a \in AccIds :
       (/\ RotationRunDone(p)
        /\ PoolAtStart(p) = {a}
        /\ Len(run[p].contacts) > HourlySlots(p, a)) =>
           AttemptedFirst(p, HourlySlots(p, a))

\* The attempts of request p answered by a ban report
BanReports(p) ==
    {k \in Attempts(p) : ContainsBanned(gateway_log[k].result.message)}

\* C13 as amended: N is the number of slots left under both caps, and a ban
\* report on attempt k of the run ends the attempts at k
C13_SlotsThenSkipsAmended ==
    \A p \in Runs : \A a \in AccIds :
       (/\ RotationRunDone(p)
        /\ PoolAtStart(p) = {a}
        /\ Len(run[p].contacts) > Slots(p, a)) =>
           IF BanReports(p) = {}
           THEN AttemptedFirst(p, Slots(p, a))
           ELSE /\ Cardinality(Attempts(p)) <= Slots(p, a)
                /\ AttemptedFirst(p, Cardinality(Attempts(p)))
                /\ \A k \in BanReports(p) : \A j \in Attempts(p) : j <= k

\* The spec's case: one slot, two contacts, the first attempted and the
\* second skipped
C13_Witness ==
    \E p \in Runs :
       /\ RotationRunDone(p)
       /\ PoolAtStart(p) = {1}
       /\ Slots(p, 1) = 1
       /\ Len(run[p].contacts) = 2
       /\ run[p].messages_sent = 1
       /\ run[p].skipped_due_to_limits = 1
       /\ BanReports(p) = {}

\* The persisted counters of account a are within its caps
WithinCaps(a) ==
    /\ telegram_accounts[a].messages_sent_hour <= telegram_accounts[a].max_per_hour
    /\ telegram_accounts[a].messages_sent_today <= telegram_accounts[a].max_per_day

\* C19: in a single run with rotation on and limits respected that starts
\* with every account's counters within its caps, every account's persisted
\* hourly and daily counters are within its caps after every send of the run,
\* whatever the outcomes of the sends
C19_SingleRunWithinCaps ==
    \A p \in Runs :
       (/\ run[p].pc # "idle"
        /\ UseRotation(p)
        /\ RespectLimits(p)
        /\ \A a \in AccIds :
              /\ at_start[p].telegram_accounts[a].messages_sent_hour
                    <= at_start[p].telegram_accounts[a].max_per_hour
              /\ at_start[p].telegram_accounts[a].messages_sent_today
                    <= at_start[p].telegram_accounts[a].max_per_day) =>
           \A a \in AccIds : WithinCaps(a)

\* A completed run has made a delivered and a failed send, with two accounts
\* that it brought to their hourly caps
C19_Witness ==
    \E p \in Runs :
       /\ RotationRunDone(p)
       /\ run[p].messages_delivered >= 1
       /\ run[p].messages_failed >= 1
       /\ \E a, b \in AccIds :
             /\ a # b
             /\ run[p].account_msg_count[a] >= 1
             /\ run[p].account_msg_count[b] >= 1
             /\ telegram_accounts[a].messages_sent_hour = telegram_accounts[a].max_per_hour
             /\ telegram_accounts[b].messages_sent_hour = telegram_accounts[b].max_per_hour

-----------------------------------------------------------------------------
(* Two add_read_contacts requests in a row                                   *)

\* The queue earlier requests left: empty, or one item of any contact, still
\* pending or cancelled
EarlierQueues ==
    {<<>>} \cup {<<[QueueItem(1, c, 1) EXCEPT !.status = st]>> :
                    c \in ConIds, st \in {"pending", "cancelled"}}

\* Every contact read or pending
InitEnqTwice ==
    /\ telegram_accounts = [a \in AccIds |-> Account(a, "active", TRUE, 0, 0)]
    /\ contacts \in {f \in [ConIds -> {Contact(c, st) : c \in ConIds, st \in {"pending", "read"}}] :
                        \A c \in ConIds : f[c].id = c}
    /\ dialogs = <<>>
    /\ campaigns = [c \in CampIds |-> Campaign(c, "draft", TRUE, TRUE)]
    /\ now = 0
    /\ run = [p \in Runs |-> IdleRun]
    /\ gateway_log = <<>>
    /\ at_start = [p \in Runs |-> Collections]
    /\ voice_messages = [v \in VoiceIds |-> [id |-> v, exists |-> TRUE, sent_count |-> 0]]
    /\ followup_queue \in EarlierQueues
    /\ enq = [e \in Enqs |-> IdleEnq]
    /\ drain = IdleDrain
    /\ cancel = IdleCancel
    /\ render = IdleRender

\* Request 1 runs to its end, then request 2 is made for the same voice
\* message and runs to its end; nothing else happens
NextEnqTwice ==
    \/ \E v \in VoiceIds : enq[1].pc = "idle" /\ EnqBegin(1, v)
    \/ EnqStep(1)
    \/ /\ enq[1].pc = "done"
       /\ enq[2].pc = "idle"
       /\ EnqBegin(2, enq[1].voice_message_id)
    \/ EnqStep(2)

SpecEnqTwice == InitEnqTwice /\ [][NextEnqTwice]_vars

\* C14: the second of two enqueue calls in a row reports added = 0 and
\* already_in_queue equal to the read contacts the first call counted, and
\* leaves the queue as the first call left it
C14_SecondEnqueueAddsNothing ==
    [][/\ enq[1].pc = "done" => followup_queue' = followup_queue
       /\ (enq'[1].pc = "done" /\ enq'[2].pc = "done") =>
             /\ enq'[2].added = 0
             /\ enq'[2].already_in_queue = enq'[1].added + enq'[1].already_in_queue]_vars

\* The first call added a contact and found another already pending, the
\* second found both
C14_Witness ==
    /\ enq[1].pc = "done"
    /\ enq[2].pc = "done"
    /\ enq[1].added = 1
    /\ enq[1].already_in_queue = 1
    /\ enq[2].already_in_queue = 2

-----------------------------------------------------------------------------
(* The drain and the cancel of the follow-up queue                           *)

\* The drain is at an item whose voice message is no longer stored
AtItemWithoutVoice ==
    /\ drain.pc \in {"voice_lookup", "mark_missing"}
    /\ ~voice_messages[DrainItem.voice_message_id].exists

CancelQueues ==
    LET items(id) == {[QueueItem(id, c, 1) EXCEPT !.status = st] :
                         c \in ConIds, st \in {"pending", "sent", "failed", "cancelled"}}
    IN {<<>>} \cup {<<x>> : x \in items(1)}
              \cup {<<x, y>> : x \in items(1), y \in items(2)}

InitCancel ==
    /\ telegram_accounts = [a \in AccIds |-> Account(a, "active", TRUE, 0, 0)]
    /\ contacts = [c \in ConIds |-> Contact(c, "read")]
    /\ dialogs = <<>>
    /\ campaigns = [c \in CampIds |-> Campaign(c, "draft", TRUE, TRUE)]
    /\ now = 0
    /\ run = [p \in Runs |-> IdleRun]
    /\ gateway_log = <<>>
    /\ at_start = [p \in Runs |-> Collections]
    /\ voice_messages = [v \in VoiceIds |-> [id |-> v, exists |-> TRUE, sent_count |-> 0]]
    /\ followup_queue \in CancelQueues
    /\ enq = [e \in Enqs |-> IdleEnq]
    /\ drain = IdleDrain
    /\ cancel = IdleCancel
    /\ render = IdleRender

\* Cancel requests for any item, stored or not
NextCancel == \E q \in 1..MaxQueue : cancel_followup(q)

SpecCancel == InitCancel /\ [][NextCancel]_vars

\* C16: cancelling succeeds exactly when the item is pending, and then sets
\* it to cancelled; cancelling an item that is sent, failed or cancelled, or
\* an unknown item, is rejected with an error and leaves every item unchanged
C16_CancelOnlyPending ==
    [][cancel' # cancel =>
          LET q == cancel'.queue_id
              pending == q \in 1..Len(followup_queue) /\ followup_queue[q].status = "pending"
          IN /\ cancel'.response = MsgCancelled <=> pending
             /\ cancel'.response # MsgCancelled => cancel'.response = MsgNotCancellable
             /\ pending => followup_queue' = [followup_queue EXCEPT ![q].status = "cancelled"]
             /\ ~pending => followup_queue' = followup_queue]_vars

\* A cancel of a pending item was accepted, and one of a sent, failed or
\* cancelled item was rejected
C16_Witness ==
    /\ cancel.response = MsgNotCancellable
    /\ cancel.queue_id \in 1..Len(followup_queue)
    /\ followup_queue[cancel.queue_id].status \in {"sent", "failed"}
    /\ \E i \in 1..Len(followup_queue) : followup_queue[i].status = "cancelled"

\* ---------------------------------------------------------------------------
\* Two runs that share an account
\* ---------------------------------------------------------------------------

\* One authorized account with both counters at zero, every contact pending,
\* every campaign a draft with rotation and the limits switched on
InitSharedAccount ==
    /\ telegram_accounts = [a \in AccIds |->
                               IF a = 1 THEN Account(a, "active", TRUE, 0, 0)
                               ELSE Account(a, "banned", FALSE, 0, 0)]
    /\ contacts = [c \in ConIds |-> Contact(c, "pending")]
    /\ dialogs = <<>>
    /\ campaigns = [c \in CampIds |-> Campaign(c, "draft", TRUE, TRUE)]
    /\ now = 0
    /\ run = [p \in Runs |-> IdleRun]
    /\ gateway_log = <<>>
    /\ at_start = [p \in Runs |-> Collections]
    /\ NoFollowUp

\* Each request starts its own campaign; the steps of the runs interleave
NextSharedAccount ==
    \/ \E p \in Runs : p \in CampIds /\ StartRead(p, p)
    \/ \E p \in Runs : RunStep(p)

SpecSharedAccount == InitSharedAccount /\ [][NextSharedAccount]_vars

\* C17: when two runs with respect_limits execute concurrently and share an
\* account, together they never push the account's persisted hourly counter
\* above max_per_hour or its persisted daily counter above max_per_day
C17_SharedAccountWithinCaps ==
    \A a \in AccIds :
        /\ telegram_accounts[a].messages_sent_hour <= telegram_accounts[a].max_per_hour
        /\ telegram_accounts[a].messages_sent_today <= telegram_accounts[a].max_per_day

\* ---------------------------------------------------------------------------
\* Rendering one template for one contact, several times at one hour
\* ---------------------------------------------------------------------------

MaxPieces == 2
NumRenders == 2

\* What templates are put together from: plain text, the four placeholders, a
\* token that is no placeholder, groups of options (one with an empty last
\* option), and single braces and bars
TemplatePieces ==
    {<<"Hi">>, VarName, VarFirstName, VarPhone, VarTime,
     <<"{", "x", "}">>,
     <<"{", "a", "|", "b", "}">>,
     <<"{", "a", "|", "}">>,
     <<"{">>, <<"}">>, <<"|">>}

RECURSIVE Templates(_)
\* The templates of at most n pieces
Templates(n) ==
    IF n = 0 THEN {<<>>}
    ELSE Templates(n - 1) \cup {t \o piece : t \in Templates(n - 1), piece \in TemplatePieces}

\* Contact names as imported or typed in: none, one word, two words, and one
\* with braces and a bar in it (no check is made on a name)
ContactNames ==
    {<<>>, <<"Ann">>, <<"Ann", " ", "Lee">>, <<"{", "a", "|", "b", "}">>}

\* One hour in each of the three greeting buckets
Hours == {0, 12, 18}

\* process_template is called with the same arguments again
RenderCall ==
    /\ Len(render.output) < NumRenders
    /\ \E text \in process_template(render.template, render.contact, now % DAY) :
          render' = [render EXCEPT !.output = Append(@, text)]
    /\ UNCHANGED <<telegram_accounts, contacts, campaigns, dialogs, voice_messages,
                   followup_queue, now, run, enq, drain, cancel, gateway_log,
                   at_start>>

InitRender ==
    /\ telegram_accounts = [a \in AccIds |-> Account(a, "banned", FALSE, 0, 0)]
    /\ contacts = [c \in ConIds |-> Contact(c, "pending")]
    /\ dialogs = <<>>
    /\ campaigns = [c \in CampIds |-> Campaign(c, "draft", TRUE, TRUE)]
    /\ now \in Hours
    /\ run = [p \in Runs |-> IdleRun]
    /\ gateway_log = <<>>
    /\ at_start = [p \in Runs |-> Collections]
    /\ voice_messages = [v \in VoiceIds |-> [id |-> v, exists |-> TRUE, sent_count |-> 0]]
    /\ followup_queue = <<>>
    /\ enq = [e \in Enqs |-> IdleEnq]
    /\ drain = IdleDrain
    /\ cancel = IdleCancel
    /\ \E template \in Templates(MaxPieces), name \in ContactNames :
          render = [template |-> template,
                    contact |-> [name |-> name, phone |-> <<"79001234567">>],
                    output |-> <<>>]

SpecRender == InitRender /\ [][RenderCall]_vars

\* Where the group of options that begins at position i ends, 0 when none
\* begins there: braces that enclose no other brace and at least one "|"
GroupEnd(text, i) ==
    IF text[i] # "{" THEN 0
    ELSE LET j == NextBrace(text, i)
         IN IF j # 0 /\ text[j] = "}" /\ \E k \in (i + 1)..(j - 1) : text[k] = "|"
            THEN j
            ELSE 0

HasGroup(text) == \E i \in 1..Len(text) : GroupEnd(text, i) # 0

RECURSIVE OneOptionPerGroup(_, _)
\* The texts got from position i on by putting one of its options in the
\* place of every group and leaving everything else as it is
OneOptionPerGroup(text, i) ==
    IF i > Len(text) THEN {<<>>}
    ELSE LET j == GroupEnd(text, i)
         IN IF j = 0
            THEN {<<text[i]>> \o rest : rest \in OneOptionPerGroup(text, i + 1)}
            ELSE {option \o rest : option \in Range(split(SubSeq(text, i + 1, j - 1), "|")),
                                   rest \in OneOptionPerGroup(text, j + 1)}

\* C18: at a fixed hour, renderings of the same template and contact are
\* identical when the template has no group of options; every group
\* {o1|...|ok} is replaced by exactly one of its options, never by several of
\* them or left as the raw group; braces without a "|" that are no known
\* placeholder stay as they are
C18_RenderContract ==
    \A i \in DOMAIN render.output :
        /\ ~HasGroup(render.template) => render.output[i] = render.output[1]
        /\ render.output[i] \in
              OneOptionPerGroup(Substituted(render.template, render.contact, now % DAY), 1)

\* ---------------------------------------------------------------------------
\* The order of the accounts in static mode
\* ---------------------------------------------------------------------------

\* The number of send attempts request p made before its attempt at position
\* i of the gateway log
AttemptsBefore(p, i) == Cardinality({j \in Attempts(p) : j < i})

\* C21: in static mode (use_rotation = false) with a pool of k authorized
\* accounts the send attempts of a run take the accounts in cyclical order
\* whatever their load: attempt i, counted from 0, uses the account at pool
\* position i mod k
C21_StaticCyclicOrder ==
    \A p \in Runs :
       (run[p].pc # "idle" /\ ~UseRotation(p)) =>
           LET pool == SortedSeq(PoolAtStart(p))
               k == Len(pool)
           IN \A i \in Attempts(p) :
                 gateway_log[i].account = pool[(AttemptsBefore(p, i) % k) + 1]

\* ---------------------------------------------------------------------------
\* The accounts and categories of a run result
\* ---------------------------------------------------------------------------

\* The accounts that made a send attempt of request p
AttemptingAccounts(p) == {gateway_log[i].account : i \in Attempts(p)}

\* The send attempts of request p made by accounts of category cat
AttemptsOfCategory(p, cat) ==
    {i \in Attempts(p) : telegram_accounts[gateway_log[i].account].price_category = cat}

\* C22: in every run result accounts_used is the number of distinct accounts
\* that made a send attempt, and by_category counts every attempt under the
\* category of its account, so that the counts add up to sent; whatever the
\* outcomes of the attempts
C22_ResultCountsEveryAccount ==
    \A p \in Runs :
       (run[p].pc = "done" /\ run[p].response = "Campaign completed") =>
           /\ run[p].accounts_used = Cardinality(AttemptingAccounts(p))
           /\ \A cat \in Categories :
                 run[p].by_category[cat] = Cardinality(AttemptsOfCategory(p, cat))
           /\ run[p].by_category["low"] + run[p].by_category["high"] = run[p].messages_sent

\* ---------------------------------------------------------------------------
\* One drain of the follow-up queue, nothing else going on
\* ---------------------------------------------------------------------------

\* The dialog a campaign run left for a contact that was messaged
DialogOf(c) ==
    [contact_id |-> c, account_id |-> 1, messages |-> <<EarlierEntry(TRUE)>>]

\* Every contact read, with a dialog or (marked read without ever having been
\* messaged) without one; an item for every contact, pending or cancelled;
\* the voice messages stored or deleted; the first account active, with its
\* counters anywhere up to the hourly cap
InitDrain ==
    /\ \E h \in 0..MaxPerHour, other \in {"active", "banned"} :
          telegram_accounts = [a \in AccIds |->
                                  IF a = 1 THEN Account(a, "active", TRUE, h, h)
                                  ELSE Account(a, other, TRUE, 0, 0)]
    /\ contacts = [c \in ConIds |-> Contact(c, "read")]
    /\ \E S \in SUBSET ConIds :
          LET ids == SortedSeq(S)
          IN dialogs = [i \in 1..Len(ids) |-> DialogOf(ids[i])]
    /\ campaigns = [c \in CampIds |-> Campaign(c, "draft", TRUE, TRUE)]
    /\ now = 0
    /\ run = [p \in Runs |-> IdleRun]
    /\ gateway_log = <<>>
    /\ at_start = [p \in Runs |-> Collections]
    /\ \E stored \in [VoiceIds -> BOOLEAN] :
          voice_messages = [v \in VoiceIds |-> [id |-> v, exists |-> stored[v], sent_count |-> 0]]
    /\ \E st \in [ConIds -> {"pending", "cancelled"}] :
          followup_queue = [i \in ConIds |-> [QueueItem(i, i, 1) EXCEPT !.status = st[i]]]
    /\ enq = [e \in Enqs |-> IdleEnq]
    /\ drain = IdleDrain
    /\ cancel = IdleCancel
    /\ render = IdleRender

NextDrain ==
    \/ DrainBegin
    \/ DrainStep

SpecDrain == InitDrain /\ [][NextDrain]_vars

\* The voice sends the gateway answered with sent
SentVoice == {k \in 1..Len(gateway_log) :
                 gateway_log[k].kind = "voice" /\ gateway_log[k].result.status = "sent"}

\* The voice entries in the dialogs of contact c
VoiceEntries(c) ==
    UNION {{<<i, j>> : j \in {j \in DOMAIN dialogs[i].messages :
                                 dialogs[i].messages[j] = VoiceEntry}} :
              i \in {i \in 1..Len(dialogs) : dialogs[i].contact_id = c}}

\* C23: for every item whose voice send returned sent, after the drain the
\* item is sent, the contact is voice_sent, the voice message's counter has
\* grown by one for it, and an outgoing voice entry has been appended to the
\* contact's dialog history, whether or not a dialog existed before
C23_SentVoiceRecorded ==
    drain.pc = "done" =>
        /\ \A k \in SentVoice :
              /\ followup_queue[gateway_log[k].by].status = "sent"
              /\ contacts[gateway_log[k].contact].status = "voice_sent"
              /\ Cardinality(VoiceEntries(gateway_log[k].contact))
                    = Cardinality({j \in SentVoice :
                                      gateway_log[j].contact = gateway_log[k].contact})
        /\ \A v \in VoiceIds :
              voice_messages[v].sent_count
                 = Cardinality({k \in SentVoice :
                                   followup_queue[gateway_log[k].by].voice_message_id = v})

\* The drain in progress has already made a voice send for one of its items
MadeVoiceSend ==
    \E i \in 1..(drain.idx - 1) : \E k \in 1..Len(gateway_log) :
        gateway_log[k].kind = "voice" /\ gateway_log[k].by = drain.pending_items[i].id

\* C24: in a drain the fixed delay is taken between any two consecutive voice
\* sends, whether the earlier of the two was answered with sent or failed
C24_DelayBetweenVoiceSends ==
    (drain.pc = "voice_send" /\ MadeVoiceSend) => drain.delayed

\* ---------------------------------------------------------------------------
\* A campaign run, a drain and mark-read requests, interleaved
\* ---------------------------------------------------------------------------

\* Contact 1 is pending; the others are read, have a dialog and a pending
\* item in the queue, whose voice message is stored or was deleted.  Account 1
\* is the only one that can send
InitContactStatus ==
    /\ telegram_accounts = [a \in AccIds |->
                               IF a = 1 THEN Account(a, "active", TRUE, 0, 0)
                               ELSE Account(a, "banned", TRUE, 0, 0)]
    /\ contacts = [c \in ConIds |-> Contact(c, IF c = 1 THEN "pending" ELSE "read")]
    /\ dialogs = [i \in 1..(NumContacts - 1) |-> DialogOf(i + 1)]
    /\ campaigns = [c \in CampIds |-> Campaign(c, "draft", TRUE, TRUE)]
    /\ now = 0
    /\ run = [p \in Runs |-> IdleRun]
    /\ gateway_log = <<>>
    /\ at_start = [p \in Runs |-> Collections]
    /\ \E stored \in [VoiceIds -> BOOLEAN] :
          voice_messages = [v \in VoiceIds |-> [id |-> v, exists |-> stored[v], sent_count |-> 0]]
    /\ followup_queue = [i \in 1..(NumContacts - 1) |-> QueueItem(i, i + 1, 1)]
    /\ enq = [e \in Enqs |-> IdleEnq]
    /\ drain = IdleDrain
    /\ cancel = IdleCancel
    /\ render = IdleRender

\* One start request for campaign 1, one drain, and mark-read requests for
\* any contact at any time
NextContactStatus ==
    \/ StartRead(1, 1)
    \/ RunStep(1)
    \/ drain.pc = "idle" /\ DrainBegin
    \/ DrainStep
    \/ \E c \in ConIds : mark_contact_read(c)

SpecContactStatus == InitContactStatus /\ [][NextContactStatus]_vars

\* How far along a status is: pending, then messaged, then read, then
\* responded or voice_sent
StatusRank(status) ==
    CASE status = "pending" -> 0
      [] status = "messaged" -> 1
      [] status = "read" -> 2
      [] OTHER -> 3

\* C25: under any interleaving of a campaign run, mark-read requests and a
\* drain, no contact's status moves backwards: not to pending from any other
\* status, not to messaged from read, responded or voice_sent, not to read
\* from responded or voice_sent
C25_StatusNeverBackwards ==
    [][\A c \in ConIds :
          StatusRank(contacts'[c].status) >= StatusRank(contacts[c].status)]_vars

\* ---------------------------------------------------------------------------
\* Cancel requests while a drain is running
\* ---------------------------------------------------------------------------

\* Drains and cancel requests for the stored items, interleaved
NextDrainCancel ==
    \/ DrainBegin
    \/ DrainStep
    \/ \E q \in 1..Len(followup_queue) : cancel_followup(q)

SpecDrainCancel == InitDrain /\ [][NextDrainCancel]_vars

\* The step makes a voice send for item q
VoiceSendFor(q) ==
    /\ Len(gateway_log') = Len(gateway_log) + 1
    /\ gateway_log'[Len(gateway_log')].kind = "voice"
    /\ gateway_log'[Len(gateway_log')].by = q

\* C26: the statuses sent, failed and cancelled of a queue item are terminal:
\* the status never changes again and no voice send is made for the item,
\* also when the item is cancelled while a drain that listed it as pending
\* is running
C26_TerminalItemStatus ==
    [][\A q \in 1..Len(followup_queue) :
          followup_queue[q].status \in {"sent", "failed", "cancelled"} =>
              /\ followup_queue'[q].status = followup_queue[q].status
              /\ ~VoiceSendFor(q)]_vars

\* ---------------------------------------------------------------------------
\* A run with an account whose delay limits were stored the wrong way round
\* ---------------------------------------------------------------------------

\* The accounts authorized and active, each with the default delay limits or
\* with delay_min above delay_max (no check is made when limits are stored)
InitDelay ==
    /\ \E swapped \in SUBSET AccIds :
          telegram_accounts =
             [a \in AccIds |->
                 IF a \in swapped
                 THEN [Account(a, "active", TRUE, 0, 0) EXCEPT !.delay_min = DelayMax,
                                                              !.delay_max = DelayMin]
                 ELSE Account(a, "active", TRUE, 0, 0)]
    /\ InitContacts
    /\ \E rot \in BOOLEAN, lim \in BOOLEAN :
          campaigns = [c \in CampIds |-> Campaign(c, "draft", rot, lim)]
    /\ now = 0
    /\ run = [p \in Runs |-> IdleRun]
    /\ gateway_log = <<>>
    /\ at_start = [p \in Runs |-> Collections]
    /\ NoFollowUp

SpecDelay == InitDelay /\ [][Next]_vars

\* C27: whenever the execution started by a start request has ended, with a
\* result or because a step inside the executor raised, the campaign is
\* completed or draft, not left at running
C27_RunningIsLeft ==
    \A p \in Runs :
       (run[p].pc \in {"done", "raised"} /\ run[p].response # "already running") =>
           campaigns[run[p].cid].status \in {"completed", "draft"}

\* ---------------------------------------------------------------------------
\* The dialogs of a contact two runs send to
\* ---------------------------------------------------------------------------

\* The dialogs stored for contact c
DialogsOf(ds, c) == {i \in 1..Len(ds) : ds[i].contact_id = c}

\* C28: there is at most one dialog per contact at all times, also when two
\* runs of different campaigns that target the same contact interleave
\* between the dialog lookup and the dialog insert; a send to a contact that
\* has a dialog appends to it and leaves its earlier entries as they are
C28_OneDialogPerContact ==
    [][/\ \A c \in ConIds : Cardinality(DialogsOf(dialogs', c)) <= 1
       /\ \A i \in 1..Len(dialogs) :
             /\ dialogs'[i].contact_id = dialogs[i].contact_id
             /\ Len(dialogs'[i].messages) >= Len(dialogs[i].messages)
             /\ SubSeq(dialogs'[i].messages, 1, Len(dialogs[i].messages))
                   = dialogs[i].messages]_vars

\* ---------------------------------------------------------------------------
\* The contacts of a run, each handled once
\* ---------------------------------------------------------------------------

\* The send attempts of request p to contact c
AttemptsTo(p, c) == {k \in Attempts(p) : gateway_log[k].contact = c}

\* The contacts request p has skipped: those the loop is past without a send
\* attempt
SkippedContacts(p) ==
    LET past == IF run[p].pc \in {"complete", "done"} THEN Len(run[p].contacts)
                ELSE run[p].idx - 1
    IN {run[p].contacts[i] : i \in {i \in 1..past : AttemptsTo(p, run[p].contacts[i]) = {}}}

LimiterState(doc) ==
    <<doc.messages_sent_hour, doc.messages_sent_today, doc.total_messages_sent,
      doc.total_messages_delivered, doc.status>>

\* C30: a drain leaves the period and lifetime counters and the status of
\* every account unchanged, whatever the number and the outcomes of its voice
\* sends: follow-up sends are not counted against the account's limits
C30_DrainLeavesAccounts ==
    [][\A a \in AccIds :
          LimiterState(telegram_accounts'[a]) = LimiterState(telegram_accounts[a])]_vars

\* A drain has ended after a voice send that was answered with sent and one
\* that failed, both made through an account that is at its hourly cap
C30_Witness ==
    /\ drain.pc = "done"
    /\ drain.sent >= 1
    /\ drain.failed >= 1
    /\ \E k \in SentVoice :
          LET acc == telegram_accounts[gateway_log[k].account]
          IN /\ acc.messages_sent_hour = acc.max_per_hour
             /\ \E j \in 1..Len(gateway_log) :
                   /\ gateway_log[j].kind = "voice"
                   /\ gateway_log[j].result.status # "sent"
                   /\ gateway_log[j].account = acc.id

====
